---- MODULE Spec2Model ----
(***************************************************************************)
(* A model of the machinebox client SDK: the transport helpers of          *)
(* utils.rs, the envelope wire shapes of each box and their conversion to  *)
(* Result<DomainValue>, the state blob download, and every public box      *)
(* operation built from them.  One action is one call of one public        *)
(* operation against one HTTP exchange chosen by the environment.          *)
(***************************************************************************)
EXTENDS Integers, Sequences, FiniteSets, TLC

VARIABLES
    pc,         \* "idle": no call in progress; "returned": a call has returned
    op,         \* the public operation that was called last
    req,        \* the HTTP request that call sent (NoReq when it sent none)
    resp,       \* the HTTP exchange the environment answered with
    result,     \* what the call returned: Ok, Err or Panic
    sinkBefore, \* the caller's sink when a download_state call began
    sink,       \* the caller's sink when the call returned
    file,       \* the local file the call opened (NoFile when it opened none)
    boxUrl,     \* the base url each box client value holds
    threads,    \* each thread's call in progress, when calls run concurrently
    conns,      \* the HTTP client objects alive, each with its request and response
    stream,     \* who holds the caller's reader or sink: "caller", "call" or "closed"
    builder,    \* the ModelBuilder or CheckOptionsBuilder in use (NoValue when none)
    calls,      \* the calls made on that builder, in order
    built       \* what finish() returned, then the form check_url sends for it

builderVars == <<builder, calls, built>>

vars ==
    <<pc, op, req, resp, result, sinkBefore, sink, file, boxUrl, threads, conns, stream,
      builder, calls, built>>

(***************************************************************************)
(* Bounds of the model.                                                    *)
(***************************************************************************)
\* longest state blob drawn byte by byte (the 10-byte blob of the tests is added)
MaxBlobLen == 2
\* largest number of bytes one read of the response body returns
MaxChunk == 2
\* largest byte value of a drawn blob
MaxByte == 1
\* number of threads that call operations concurrently
NThreads == 2
\* largest number of setter calls made on one builder
MaxCalls == 3

(***************************************************************************)
(* JSON values.  Every value is a record [t, b, s, n, a] so that any two   *)
(* of them can be compared.                                                *)
(***************************************************************************)
JNull    == [t |-> "null",   b |-> FALSE, s |-> "", n |-> 0, a |-> <<>>]
JBool(x) == [t |-> "bool",   b |-> x,     s |-> "", n |-> 0, a |-> <<>>]
JStr(x)  == [t |-> "string", b |-> FALSE, s |-> x,  n |-> 0, a |-> <<>>]
JNum(x)  == [t |-> "number", b |-> FALSE, s |-> "", n |-> x, a |-> <<>>]
\* an array of items that are well-formed values of the item type ty
JArr(ty, x) == [t |-> "array", b |-> FALSE, s |-> ty, n |-> 0, a |-> x]
\* a nested object, well-formed for its type, named by s
JObj(x)  == [t |-> "object", b |-> FALSE, s |-> x,  n |-> 0, a |-> <<>>]

\* f with the pairs of g added; g wins where both are defined
Merge(f, g) ==
    [k \in (DOMAIN f) \cup (DOMAIN g) |-> IF k \in DOMAIN g THEN g[k] ELSE f[k]]

NoFields == [k \in {} |-> JNull]

(***************************************************************************)
(* Response bodies.  A body is text that is not JSON, a JSON scalar, a     *)
(* JSON object (a map from field names to JSON values) or, for the state   *)
(* endpoints, an opaque sequence of bytes.                                 *)
(***************************************************************************)
TextBody(s)   == [kind |-> "text",   text |-> s,  fields |-> NoFields, bytes |-> <<>>]
ScalarBody(s) == [kind |-> "scalar", text |-> s,  fields |-> NoFields, bytes |-> <<>>]
ObjBody(f)    == [kind |-> "object", text |-> "", fields |-> f,        bytes |-> <<>>]
BlobBody(b)   == [kind |-> "bytes",  text |-> "", fields |-> NoFields, bytes |-> b]
NoBody        == [kind |-> "none",   text |-> "", fields |-> NoFields, bytes |-> <<>>]

\* the empty body, a plain-text body and a truncated object: none is JSON
NonJsonBodies == {TextBody(""), TextBody("not found"), TextBody("{not json")}
\* JSON, but not an object
ScalarBodies == {ScalarBody("1234512345")}

F1(k, v) == [x \in {k} |-> v]

\* the success field: absent, true, false, or of the wrong type
SuccessChoices ==
    {NoFields, F1("success", JBool(TRUE)), F1("success", JBool(FALSE)),
     F1("success", JStr("yes"))}

\* the error field: absent, null, empty, populated, or of the wrong type
ErrorChoices ==
    {NoFields, F1("error", JNull), F1("error", JStr("")),
     F1("error", JStr("bad image")), F1("error", JNum(7))}

VideoFull ==
    [id |-> JStr("v1"), status |-> JStr("complete"),
     downloadTotal |-> JNum(10), downloadComplete |-> JNum(9),
     downloadCompleteEstimate |-> JStr("0s"), framesCount |-> JNum(5),
     framesComplete |-> JNum(4), lastFrameBase64 |-> JStr("AAAA"),
     millisecondsComplete |-> JNum(900), expires |-> JStr("tomorrow")]

\* the payload fields a box may send beside success and error
PayloadChoices ==
    {NoFields,
     F1("faces", JArr("Face", <<"face1">>)),
     [tags |-> JArr("Tag", <<"tag1">>), custom_tags |-> JArr("Tag", <<"custom1">>)],
     F1("similar", JArr("Similar", <<"similar1">>)),
     F1("similar", JArr("Tag", <<"tag1">>)),
     F1("id", JStr("v1")),
     [id |-> JStr("v1"), status |-> JStr("processing")],
     [id |-> JStr("v1"), status |-> JStr("queued")],
     VideoFull,
     [ready |-> JBool(TRUE), facebox |-> JObj("Facebox"), tagbox |-> JObj("Tagbox")],
     F1("ready", JBool(FALSE)),
     [id |-> JStr("model1"), name |-> JStr("Articles"),
      choices |-> JArr("Choice", <<>>), options |-> JObj("ModelOptions")],
     F1("models", JArr("Model", <<"model1">>)),
     F1("choices", JArr("Prediction", <<"choice3", "choice1", "choice2">>)),
     [predictions |-> JNum(100), rewards |-> JNum(80), reward_ratio |-> JNum(1),
      explores |-> JNum(30), exploits |-> JNum(70), explore_ratio |-> JNum(0)],
     [sentences |-> JArr("Sentence", <<"s1">>), keywords |-> JArr("Keyword", <<"k1">>)],
     [name |-> JStr("tagbox"), version |-> JNum(1), build |-> JStr("27d1d38"),
      status |-> JStr("ready"), plan |-> JStr("pro")],
     [hostname |-> JStr("83b1a33ef322"), metadata |-> JObj("BoxMetadata"),
      errors |-> JArr("BoxError", <<"Something went wrong">>)],
     \* payload fields of the wrong JSON type
     [faces |-> JStr("oops"), tags |-> JNull, similar |-> JNum(1), id |-> JNum(7),
      ready |-> JStr("no"), models |-> JNull, choices |-> JStr("x")]}

ObjectBodies ==
    {ObjBody(Merge(Merge(p, e), s)) :
        s \in SuccessChoices, e \in ErrorChoices, p \in PayloadChoices}

JsonBodies == ScalarBodies \cup ObjectBodies
Bodies == NonJsonBodies \cup JsonBodies

\* state blobs: every byte sequence up to MaxBlobLen, and the blob of the tests
RECURSIVE SeqsUpTo(_, _)
SeqsUpTo(S, n) ==
    IF n = 0 THEN {<<>>}
    ELSE LET shorter == SeqsUpTo(S, n - 1)
         IN  shorter \cup {Append(q, x) : q \in shorter, x \in S}

TestBlob == <<1, 2, 3, 4, 5, 1, 2, 3, 4, 5>>
Blobs == {BlobBody(b) : b \in SeqsUpTo(0..MaxByte, MaxBlobLen) \cup {TestBlob}}

(***************************************************************************)
(* HTTP exchanges.  The environment either fails the request (send), or    *)
(* answers with a status and a body; reading the body may fail after       *)
(* `arrive` of its bytes.  clen is the Content-Length header, -1 if the    *)
(* response has none.                                                      *)
(***************************************************************************)
StatusOk == 200
Statuses == {StatusOk, 201, 204, 302, 404, 500, 503}

Response(st, body, readOk, arrive, clen) ==
    [send |-> "ok", status |-> st, body |-> body, readOk |-> readOk,
     arrive |-> arrive, clen |-> clen]
SendFail ==
    [send |-> "fail", status |-> 0, body |-> NoBody, readOk |-> FALSE,
     arrive |-> 0, clen |-> -1]
NoResp ==
    [send |-> "none", status |-> 0, body |-> NoBody, readOk |-> FALSE,
     arrive |-> 0, clen |-> -1]

\* what a JSON endpoint may answer
Responses ==
    {SendFail}
    \cup {Response(st, NoBody, FALSE, 0, -1) : st \in Statuses}
    \cup {Response(st, b, TRUE, 0, -1) : st \in Statuses, b \in Bodies}

\* the local file a call is given: it cannot be opened or read, or it holds
\* contents
File(ok, contents) == [used |-> TRUE, ok |-> ok, contents |-> contents]
NoFile == [used |-> FALSE, ok |-> FALSE, contents |-> NoBody]

\* what a state endpoint may answer
BlobResponses ==
    {SendFail}
    \cup UNION {{Response(st, b, TRUE, Len(b.bytes), c) : c \in {-1, Len(b.bytes)}} :
                    st \in Statuses, b \in Blobs}
    \cup {Response(st, b, FALSE, k, -1) :
            st \in Statuses, b \in {x \in Blobs : Len(x.bytes) \in 1..MaxBlobLen},
            k \in 0..(MaxBlobLen - 1)}

\* the caller's sink before a download: empty, or already holding a byte
Sinks == {<<>>, <<7>>}

(***************************************************************************)
(* Values, errors and results.                                             *)
(***************************************************************************)
\* a value: unit, a raw body text, a struct, a byte count or a bool
VUnit         == [type |-> "()",     fields |-> NoFields, raw |-> NoBody, n |-> 0, b |-> FALSE]
VRaw(body)    == [type |-> "String", fields |-> NoFields, raw |-> body,   n |-> 0, b |-> FALSE]
VStruct(ty, f) == [type |-> ty,      fields |-> f,        raw |-> NoBody, n |-> 0, b |-> FALSE]
VCount(k)     == [type |-> "u64",    fields |-> NoFields, raw |-> NoBody, n |-> k, b |-> FALSE]
VBool(x)      == [type |-> "bool",   fields |-> NoFields, raw |-> NoBody, n |-> 0, b |-> x]
NoVal         == [type |-> "none",   fields |-> NoFields, raw |-> NoBody, n |-> 0, b |-> FALSE]

\* the pieces a message is formatted from
Lit(s)          == [piece |-> "lit",    lit |-> s,  code |-> 0,  body |-> NoBody]
StatusPiece(st) == [piece |-> "status", lit |-> "", code |-> st, body |-> NoBody]
RawPiece(body)  == [piece |-> "raw",    lit |-> "", code |-> 0,  body |-> body]

Ok(v)          == [tag |-> "Ok",    kind |-> "",   msg |-> <<>>, val |-> v]
Err(kind, msg) == [tag |-> "Err",   kind |-> kind, msg |-> msg,  val |-> NoVal]
Panic          == [tag |-> "Panic", kind |-> "",   msg |-> <<>>, val |-> NoVal]
NoResult       == [tag |-> "none",  kind |-> "",   msg |-> <<>>, val |-> NoVal]

\* From, were a std::io::Error wrapped as a transport error
From_io_as_transport(e) ==
    CASE e.kind = "reqwest::Error"    -> Err("Reqwest", e.msg)
      [] e.kind = "serde_json::Error" -> Err("Serialization", e.msg)
      [] e.kind = "std::io::Error"    -> Err("Reqwest", e.msg)
      [] OTHER                        -> e

\* From<reqwest::Error>, From<serde_json::Error>, From<std::io::Error> for Error;
\* an Error converts to itself
From(e) ==
    CASE e.kind = "reqwest::Error"    -> Err("Reqwest", e.msg)
      [] e.kind = "serde_json::Error" -> Err("Serialization", e.msg)
      [] e.kind = "std::io::Error"    -> Err("Io", e.msg)
      [] OTHER                        -> e

\* the ? operator: x? followed by K
Q(x, K(_)) ==
    IF x.tag = "Ok" THEN K(x.val)
    ELSE IF x.tag = "Err" THEN From(x)
    ELSE x

\* cause, were the message of a service error wrapped as its cause
cause_always_some(e) == "Some"

\* Error::cause
cause(e) == IF e.kind = "Machinebox" THEN "None" ELSE "Some"

\* impl fmt::Display for Error: the message string of a service error, the
\* text of the underlying error otherwise
Display(e) ==
    CASE e.kind = "Machinebox"    -> e.msg
      [] e.kind = "Serialization" -> <<Lit("serde_json::Error")>> \o e.msg
      [] e.kind = "Reqwest"       -> <<Lit("reqwest::Error")>> \o e.msg
      [] e.kind = "Io"            -> <<Lit("std::io::Error")>> \o e.msg

(***************************************************************************)
(* serde_json::from_str into a derived Deserialize struct.  A field spec   *)
(* gives the JSON key, the JSON type, the item type of an array or the     *)
(* type of a nested object, whether the field is an Option (null and       *)
(* absent both give None), and whether it carries #[serde(default)].       *)
(* Keys the struct does not name are ignored.                              *)
(***************************************************************************)
Fld(name, type, item, opt, dflt) ==
    [name |-> name, type |-> type, item |-> item, opt |-> opt, dflt |-> dflt]

Required(name, type, item) == Fld(name, type, item, FALSE, FALSE)
Optional(name, type, item) == Fld(name, type, item, TRUE, TRUE)
Defaulted(name, type, item) == Fld(name, type, item, FALSE, TRUE)

\* Default::default() of a field's type; None is JNull
DefaultOf(fs) ==
    CASE fs.opt              -> JNull
      [] fs.type = "array"   -> JArr(fs.item, <<>>)
      [] fs.type = "number"  -> JNum(0)
      [] fs.type = "bool"    -> JBool(FALSE)
      [] OTHER               -> JStr("")

\* whether JSON value v deserializes as the field's type
TypeOk(fs, v) ==
    IF v.t = "null" THEN fs.opt
    ELSE /\ v.t = fs.type
         /\ v.t = "array" => (v.a = <<>> \/ v.s = fs.item)
         /\ v.t = "object" => v.s = fs.item

\* from_str, were a missing required field to take its type's default
from_str_lenient(schema, body) ==
    IF body.kind # "object"
    THEN Err("serde_json::Error", <<Lit("syntax")>>)
    ELSE Ok(VStruct("wire",
            [k \in {fs.name : fs \in schema} |->
                LET fs == CHOOSE x \in schema : x.name = k
                IN  IF k \in DOMAIN body.fields /\ TypeOk(fs, body.fields[k])
                    THEN body.fields[k] ELSE DefaultOf(fs)]))

\* from_str, were a body that is not a JSON object to give a struct of defaults
from_str_default_on_syntax(schema, body) ==
    LET obj == IF body.kind = "object" THEN body.fields ELSE NoFields
        present == {fs \in schema : fs.name \in DOMAIN obj}
    IN  IF \E fs \in present : ~TypeOk(fs, obj[fs.name])
        THEN Err("serde_json::Error", <<Lit("invalid type")>>)
        ELSE IF body.kind = "object" /\ \E fs \in schema \ present : ~fs.opt /\ ~fs.dflt
        THEN Err("serde_json::Error", <<Lit("missing field")>>)
        ELSE Ok(VStruct("wire",
                [k \in {fs.name : fs \in schema} |->
                    IF k \in DOMAIN obj THEN obj[k]
                    ELSE DefaultOf(CHOOSE fs \in schema : fs.name = k)]))

from_str(schema, body) ==
    IF body.kind \notin {"object", "scalar"}
    THEN Err("serde_json::Error", <<Lit("syntax")>>)
    ELSE IF body.kind = "scalar"
    THEN Err("serde_json::Error", <<Lit("invalid type")>>)
    ELSE LET present == {fs \in schema : fs.name \in DOMAIN body.fields}
         IN  IF \E fs \in present : ~TypeOk(fs, body.fields[fs.name])
             THEN Err("serde_json::Error", <<Lit("invalid type")>>)
             ELSE IF \E fs \in schema \ present : ~fs.opt /\ ~fs.dflt
             THEN Err("serde_json::Error", <<Lit("missing field")>>)
             ELSE Ok(VStruct("wire",
                     [k \in {fs.name : fs \in schema} |->
                         IF k \in DOMAIN body.fields THEN body.fields[k]
                         ELSE DefaultOf(CHOOSE fs \in schema : fs.name = k)]))

(***************************************************************************)
(* The wire shapes.                                                        *)
(***************************************************************************)
RawBoxResponse ==
    {Required("success", "bool", ""), Optional("error", "string", "")}

facebox_SimilarResponseFull ==
    {Required("success", "bool", ""), Optional("error", "string", ""),
     Defaulted("similar", "array", "Similar")}

facebox_CheckResponseFull ==
    {Required("success", "bool", ""), Optional("error", "string", ""),
     Defaulted("faces", "array", "Face")}

tagbox_CheckResponseFull ==
    {Required("success", "bool", ""), Optional("error", "string", ""),
     Defaulted("tags", "array", "Tag"), Defaulted("custom_tags", "array", "Tag")}

TeachResponse ==
    {Required("success", "bool", ""), Optional("error", "string", "")}

tagbox_SimilarResponse ==
    {Required("success", "bool", ""), Optional("error", "string", ""),
     Defaulted("similar", "array", "Tag")}

VideoResponse ==
    {Required("success", "bool", ""), Optional("error", "string", ""),
     Required("id", "string", ""), Optional("status", "string", ""),
     Optional("downloadTotal", "number", ""),
     Optional("downloadComplete", "number", ""),
     Optional("downloadCompleteEstimate", "string", ""),
     Optional("framesCount", "number", ""),
     Optional("framesComplete", "number", ""),
     Optional("lastFrameBase64", "string", ""),
     Optional("millisecondsComplete", "number", ""),
     Optional("expires", "string", "")}

VideoAnalysisResponse ==
    {Required("success", "bool", ""), Optional("error", "string", ""),
     Required("ready", "bool", ""), Optional("facebox", "object", "Facebox"),
     Optional("tagbox", "object", "Tagbox"), Optional("nudebox", "object", "Nudebox")}

\* suggestionbox: Model has no success or error field
Model ==
    {Optional("id", "string", ""), Required("name", "string", ""),
     Optional("options", "object", "ModelOptions"),
     Defaulted("choices", "array", "Choice")}

ModelStats ==
    {Required("predictions", "number", ""), Required("rewards", "number", ""),
     Required("reward_ratio", "number", ""), Required("explores", "number", ""),
     Required("exploits", "number", ""), Required("explore_ratio", "number", "")}

ModelList ==
    {Required("models", "array", "Model"), Required("success", "bool", "")}

PredictionResponse == {Defaulted("choices", "array", "Prediction")}

Analysis ==
    {Required("sentences", "array", "Sentence"), Required("keywords", "array", "Keyword")}

BoxInfo ==
    {Required("success", "bool", ""), Required("name", "string", ""),
     Required("version", "number", ""), Required("build", "string", ""),
     Required("status", "string", ""), Required("plan", "string", ""),
     Optional("error", "string", "")}

Health ==
    {Required("success", "bool", ""), Required("hostname", "string", ""),
     Required("metadata", "object", "BoxMetadata"),
     Required("errors", "array", "BoxError")}

(***************************************************************************)
(* The conversions of a parsed wire shape into Result<DomainValue>.        *)
(* e is the parsed struct: a function from field names to values.          *)
(***************************************************************************)
Pick(e, keys) == [k \in keys |-> e[k]]

\* RawBoxResponse_into, were the fallback message to replace the error field
RawBoxResponse_into_fallback_only(e) ==
    IF e["success"].b THEN Ok(VUnit)
    ELSE Err("Machinebox", <<Lit("Request failed")>>)

RawBoxResponse_into(e) ==
    IF e["success"].b
    THEN Ok(VUnit)
    ELSE LET s == IF e["error"].t = "string" THEN e["error"].s ELSE "Request failed"
         IN  Err("Machinebox", <<Lit(s)>>)

facebox_SimilarResponseFull_into(e) ==
    IF e["success"].b
    THEN Ok(VStruct("SimilarResponse", Pick(e, {"similar"})))
    ELSE LET s == IF e["error"].t = "string" THEN e["error"].s ELSE "Request failed"
         IN  Err("Machinebox", <<Lit(s)>>)

facebox_CheckResponseFull_into(e) ==
    IF e["success"].b
    THEN Ok(VStruct("CheckResponse", Pick(e, {"faces"})))
    ELSE LET s == IF e["error"].t = "string" THEN e["error"].s ELSE "Request failed"
         IN  Err("Machinebox", <<Lit(s)>>)

tagbox_CheckResponseFull_into(e) ==
    IF e["success"].b
    THEN Ok(VStruct("CheckResponse", Pick(e, {"tags", "custom_tags"})))
    ELSE LET s == IF e["error"].t = "string" THEN e["error"].s ELSE "Request failed"
         IN  Err("Machinebox", <<Lit(s)>>)

TeachResponse_into(e) ==
    IF e["success"].b
    THEN Ok(VUnit)
    ELSE LET s == IF e["error"].t = "string" THEN e["error"].s ELSE "Request failed"
         IN  Err("Machinebox", <<Lit(s)>>)

tagbox_SimilarResponse_into(e) ==
    IF e["success"].b
    THEN Ok(VStruct("Vec<Tag>", Pick(e, {"similar"})))
    ELSE LET s == IF e["error"].t = "string" THEN e["error"].s ELSE "Request failed"
         IN  Err("Machinebox", <<Lit(s)>>)

\* Status::from_str, were a string it does not know taken as Unknown
Status_from_str_lenient(s) ==
    CASE s = "pending"     -> Ok(VStruct("Status", F1("variant", JStr("Pending"))))
      [] s = "downloading" -> Ok(VStruct("Status", F1("variant", JStr("Downloading"))))
      [] s = "processing"  -> Ok(VStruct("Status", F1("variant", JStr("Processing"))))
      [] s = "complete"    -> Ok(VStruct("Status", F1("variant", JStr("Complete"))))
      [] s = "failed"      -> Ok(VStruct("Status", F1("variant", JStr("Failed"))))
      [] OTHER             -> Ok(VStruct("Status", F1("variant", JStr("Unknown"))))

\* Status::from_str: Ok(variant) for the six known strings, Err(()) otherwise
Status_from_str(s) ==
    CASE s = "pending"     -> Ok(VStruct("Status", F1("variant", JStr("Pending"))))
      [] s = "downloading" -> Ok(VStruct("Status", F1("variant", JStr("Downloading"))))
      [] s = "processing"  -> Ok(VStruct("Status", F1("variant", JStr("Processing"))))
      [] s = "complete"    -> Ok(VStruct("Status", F1("variant", JStr("Complete"))))
      [] s = "failed"      -> Ok(VStruct("Status", F1("variant", JStr("Failed"))))
      [] s = "unknown"     -> Ok(VStruct("Status", F1("variant", JStr("Unknown"))))
      [] OTHER             -> Err("()", <<>>)

\* Option::unwrap_or on a parsed Option field
unwrap_or(v, d) == IF v.t = "null" THEN d ELSE v

VideoResponse_into(e) ==
    IF e["success"].b
    THEN LET st == unwrap_or(e["status"], JStr("unknown"))
             status == Status_from_str(st.s)
         IN  IF status.tag # "Ok"
             THEN Panic    \* Result::unwrap on Err(())
             ELSE Ok(VStruct("Video",
                    [id |-> e["id"],
                     status |-> status.val.fields["variant"],
                     download_total |-> unwrap_or(e["downloadTotal"], JNum(0)),
                     download_complete |-> unwrap_or(e["downloadComplete"], JNum(0)),
                     download_complete_estimate |->
                         unwrap_or(e["downloadCompleteEstimate"], JStr("unknown")),
                     frames_count |-> unwrap_or(e["framesCount"], JNum(0)),
                     frames_complete |-> unwrap_or(e["framesComplete"], JNum(0)),
                     last_frame_base64 |-> unwrap_or(e["lastFrameBase64"], JStr("")),
                     milliseconds_complete |->
                         unwrap_or(e["millisecondsComplete"], JNum(0)),
                     expires |-> unwrap_or(e["expires"], JStr(""))]))
    ELSE LET s == IF e["error"].t = "string" THEN e["error"].s ELSE "Request failed"
         IN  Err("Machinebox", <<Lit(s)>>)

VideoAnalysisResponse_into(e) ==
    IF e["success"].b
    THEN Ok(VStruct("VideoAnalysis", Pick(e, {"ready", "facebox", "tagbox", "nudebox"})))
    ELSE LET s == IF e["error"].t = "string" THEN e["error"].s ELSE "Request failed"
         IN  Err("Machinebox", <<Lit(s)>>)

(***************************************************************************)
(* The transport helpers of utils.rs.  Each takes the exchange r the       *)
(* environment answers with and gives the requests it sent and the         *)
(* Result<String> it returns.                                              *)
(***************************************************************************)
Request(method, url, enc, files, texts) ==
    [method |-> method, url |-> url, enc |-> enc, files |-> files, texts |-> texts]

\* Response::text: the whole body as text, or the error of reading it
text(r) ==
    IF r.readOk THEN Ok(VRaw(r.body)) ELSE Err("reqwest::Error", <<Lit("body")>>)

\* format!("HTTP {}: {}", response.status(), raw)
HttpStatusAndBody(st, raw) == <<Lit("HTTP "), StatusPiece(st), Lit(": "), RawPiece(raw)>>

post_form_vars(url, params, r) ==
    [reqs |-> <<Request("POST", url, "form", <<>>, params)>>,
     res |-> IF r.send = "ok"
             THEN Q(text(r), LAMBDA raw :
                    IF r.status # StatusOk
                    THEN Err("Machinebox", HttpStatusAndBody(r.status, raw.raw))
                    ELSE Ok(raw))
             ELSE Err("Reqwest", <<Lit("send")>>)]

delete_with_response(url, r) ==
    [reqs |-> <<Request("DELETE", url, "none", <<>>, <<>>)>>,
     res |-> IF r.send = "ok"
             THEN Q(text(r), LAMBDA raw :
                    IF r.status # StatusOk
                    THEN Err("Machinebox", HttpStatusAndBody(r.status, raw.raw))
                    ELSE Ok(raw))
             ELSE Err("Reqwest", <<Lit("send")>>)]

patch_json(url, r) ==
    [reqs |-> <<Request("PATCH", url, "json", <<>>, <<>>)>>,
     res |-> IF r.send = "ok"
             THEN Q(text(r), LAMBDA raw :
                    IF r.status # StatusOk
                    THEN Err("Machinebox", HttpStatusAndBody(r.status, raw.raw))
                    ELSE Ok(raw))
             ELSE Err("Reqwest", <<Lit("send")>>)]

\* post_multipart, were a failed send tried once more
post_multipart_retry(url, form, r) ==
    LET request == Request("POST", url, "multipart", form.files, form.texts)
    IN  [reqs |-> IF r.send = "ok" THEN <<request>> ELSE <<request, request>>,
         res |-> IF r.send = "ok"
                 THEN Q(text(r), LAMBDA raw :
                        IF r.status # StatusOk
                        THEN Err("Machinebox", HttpStatusAndBody(r.status, raw.raw))
                        ELSE Ok(raw))
                 ELSE Err("Reqwest", <<Lit("send")>>)]

\* post_multipart, were every 2xx status taken as success
post_multipart_any_2xx(url, form, r) ==
    [reqs |-> <<Request("POST", url, "multipart", form.files, form.texts)>>,
     res |-> IF r.send = "ok"
             THEN Q(text(r), LAMBDA raw :
                    IF r.status \notin 200..299
                    THEN Err("Machinebox", HttpStatusAndBody(r.status, raw.raw))
                    ELSE Ok(raw))
             ELSE Err("Reqwest", <<Lit("send")>>)]

\* form: the names of the file parts and the text parts
post_multipart(url, form, r) ==
    [reqs |-> <<Request("POST", url, "multipart", form.files, form.texts)>>,
     res |-> IF r.send = "ok"
             THEN Q(text(r), LAMBDA raw :
                    IF r.status # StatusOk
                    THEN Err("Machinebox", HttpStatusAndBody(r.status, raw.raw))
                    ELSE Ok(raw))
             ELSE Err("Reqwest", <<Lit("send")>>)]

post_multipart_reader(url, r) ==
    post_multipart(url, [files |-> <<"file">>, texts |-> <<>>], r)

post_multipart_reader_parts(url, parts, r) ==
    post_multipart(url, [files |-> <<"file">>, texts |-> parts], r)

\* fileOk: whether the file at source_path can be opened
post_multipart_file(url, fileOk, r) ==
    IF ~fileOk
    THEN [reqs |-> <<>>, res |-> From(Err("std::io::Error", <<Lit("open")>>))]
    ELSE post_multipart(url, [files |-> <<"file">>, texts |-> <<>>], r)

\* get_json, were the status tested before the body is read
get_json_status_first(url, r) ==
    [reqs |-> <<Request("GET", url, "none", <<>>, <<>>)>>,
     res |-> IF r.send = "ok"
             THEN IF r.status = StatusOk
                  THEN Q(text(r), LAMBDA raw : Ok(raw))
                  ELSE Err("Machinebox", <<StatusPiece(r.status)>>)
             ELSE Err("Reqwest", <<Lit("send")>>)]

get_json(url, r) ==
    [reqs |-> <<Request("GET", url, "none", <<>>, <<>>)>>,
     res |-> IF r.send = "ok"
             THEN Q(text(r), LAMBDA raw :
                    IF r.status = StatusOk
                    THEN Ok(raw)
                    ELSE Err("Machinebox", <<RawPiece(raw.raw)>>))
             ELSE Err("Reqwest", <<Lit("send")>>)]

\* post_json, were a failed send reported as a service error
post_json_send_as_service(url, r) ==
    [reqs |-> <<Request("POST", url, "json", <<>>, <<>>)>>,
     res |-> IF r.send = "ok"
             THEN Q(text(r), LAMBDA raw :
                    IF r.status = StatusOk
                    THEN Ok(raw)
                    ELSE Err("Machinebox", <<RawPiece(raw.raw)>>))
             ELSE Err("Machinebox", <<Lit("send")>>)]

post_json(url, r) ==
    [reqs |-> <<Request("POST", url, "json", <<>>, <<>>)>>,
     res |-> IF r.send = "ok"
             THEN Q(text(r), LAMBDA raw :
                    IF r.status = StatusOk
                    THEN Ok(raw)
                    ELSE Err("Machinebox", <<RawPiece(raw.raw)>>))
             ELSE Err("Reqwest", <<Lit("send")>>)]

(***************************************************************************)
(* The state blob download.                                                *)
(***************************************************************************)
Min(a, b) == IF a < b THEN a ELSE b

\* std::io::copy: read up to chunk bytes, write them all, count them, until
\* a read returns nothing
RECURSIVE io_copy(_, _, _, _)
io_copy(bytes, chunk, buf, written) ==
    IF bytes = <<>>
    THEN [sink |-> buf, n |-> written]
    ELSE LET k == Min(chunk, Len(bytes))
         IN  io_copy(SubSeq(bytes, k + 1, Len(bytes)), chunk,
                     buf \o SubSeq(bytes, 1, k), written + k)

\* copy_to, were the count taken from the Content-Length header
copy_to_content_length(r, buf, chunk) ==
    LET arrived == SubSeq(r.body.bytes, 1, Min(r.arrive, Len(r.body.bytes)))
        c == io_copy(arrived, chunk, buf, 0)
    IN  [sink |-> c.sink,
         res |-> IF r.readOk THEN Ok(VCount(IF r.clen < 0 THEN 0 ELSE r.clen))
                 ELSE Err("reqwest::Error", <<Lit("body")>>)]

\* Response::copy_to: the bytes that arrive are copied; a failed read is an error
copy_to(r, buf, chunk) ==
    LET arrived == SubSeq(r.body.bytes, 1, Min(r.arrive, Len(r.body.bytes)))
        c == io_copy(arrived, chunk, buf, 0)
    IN  [sink |-> c.sink,
         res |-> IF r.readOk THEN Ok(VCount(c.n))
                 ELSE Err("reqwest::Error", <<Lit("body")>>)]

\* download_state, were the body copied to the sink before the status is tested
download_state_copy_first(url, r, buf, chunk) ==
    LET request == Request("GET", url, "none", <<>>, <<>>)
    IN  IF r.send # "ok"
        THEN [reqs |-> <<request>>, sink |-> buf,
              res |-> From(Err("reqwest::Error", <<Lit("send")>>))]
        ELSE LET c == copy_to(r, buf, chunk)
             IN  IF r.status # StatusOk
                 THEN [reqs |-> <<request>>, sink |-> c.sink,
                       res |-> Q(text(r), LAMBDA raw :
                                 Err("Machinebox", HttpStatusAndBody(r.status, raw.raw)))]
                 ELSE [reqs |-> <<request>>, sink |-> c.sink,
                       res |-> Q(c.res, LAMBDA bytecount : Ok(bytecount))]

\* Facebox::download_state, Tagbox::download_state and
\* Suggestionbox::download_state have the same body
download_state(url, r, buf, chunk) ==
    LET request == Request("GET", url, "none", <<>>, <<>>)
    IN  IF r.send # "ok"
        THEN [reqs |-> <<request>>, sink |-> buf,
              res |-> From(Err("reqwest::Error", <<Lit("send")>>))]
        ELSE IF r.status # StatusOk
        THEN [reqs |-> <<request>>, sink |-> buf,
              res |-> Q(text(r), LAMBDA raw :
                        Err("Machinebox", HttpStatusAndBody(r.status, raw.raw)))]
        ELSE LET c == copy_to(r, buf, chunk)
             IN  [reqs |-> <<request>>, sink |-> c.sink,
                  res |-> Q(c.res, LAMBDA bytecount : Ok(bytecount))]

(***************************************************************************)
(* The state machine: a call of one public operation, then its return.     *)
(***************************************************************************)
\* a builder, the value it finishes as, or a form: one record shape for all
Value(type, name, id, choices, options, kvs, params) ==
    [type |-> type, name |-> name, id |-> id, choices |-> choices,
     options |-> options, kvs |-> kvs, params |-> params]
\* Option<T>: None, or Some(x)
None == <<>>
Some(x) == <<x>>
NoValue == Value("none", "", None, <<>>, None, NoFields, <<>>)

\* the threads, the box client values they share and the urls those were
\* constructed with
Threads == 1..NThreads
BoxClients == {"facebox", "tagbox"}
BaseUrls == [facebox |-> "http://localhost:8080", tagbox |-> "http://localhost:8081"]

\* a thread between two calls
IdleThread ==
    [pc |-> "idle", box |-> "none", op |-> "none", client |-> -1, url |-> "",
     answer |-> NoResp, result |-> NoResult]

\* an HTTP client object: a slot that is free, or holds the url requested and
\* the response received
FreeConn == [busy |-> FALSE, url |-> "", resp |-> NoResp]

Init ==
    /\ boxUrl = BaseUrls
    /\ threads = [t \in Threads |-> IdleThread]
    /\ conns = [c \in 0..(NThreads - 1) |-> FreeConn]
    /\ stream = "caller"
    /\ builder = NoValue
    /\ calls = <<>>
    /\ built = NoValue
    /\ pc = "idle"
    /\ op = "none"
    /\ req = <<>>
    /\ resp = NoResp
    /\ result = NoResult
    /\ sinkBefore = <<>>
    /\ sink = <<>>
    /\ file = NoFile

\* the call of operation name sent reqs, was answered r and returns out
Call(name, reqs, r, out) ==
    /\ pc' = "returned"
    /\ op' = name
    /\ req' = reqs
    /\ resp' = r
    /\ result' = out
    /\ UNCHANGED <<sinkBefore, sink, file, boxUrl, threads, conns, stream, builderVars>>

\* the same for a call that was given the local file f
FileCall(name, f, reqs, r, out) ==
    /\ pc' = "returned"
    /\ op' = name
    /\ req' = reqs
    /\ resp' = r
    /\ result' = out
    /\ file' = f
    /\ UNCHANGED <<sinkBefore, sink, boxUrl, threads, conns, stream, builderVars>>

\* the caller drops the result; nothing of the call is kept
Return ==
    /\ pc = "returned"
    /\ pc' = "idle"
    /\ op' = "none"
    /\ req' = <<>>
    /\ resp' = NoResp
    /\ result' = NoResult
    /\ sinkBefore' = <<>>
    /\ sink' = <<>>
    /\ file' = NoFile
    /\ UNCHANGED <<boxUrl, threads, conns, stream, builderVars>>

\* the exchanges a call that first opens a local file may see
FileCases == {[fileOk |-> TRUE, r |-> r] : r \in Responses} \cup {[fileOk |-> FALSE, r |-> NoResp]}

(************************** BoxClient (lib.rs) *****************************)
BoxClient_info ==
    /\ pc = "idle"
    /\ \E r \in Responses :
        Call("BoxClient::info", <<Request("GET", "/info", "none", <<>>, <<>>)>>, r,
             IF r.send = "ok"
             THEN Q(text(r), LAMBDA raw :
                  Q(from_str(BoxInfo, raw.raw), LAMBDA bi :
                  Ok(VStruct("BoxInfo", bi.fields))))
             ELSE Err("Reqwest", <<Lit("send")>>))

\* health, were the success flag interpreted as an envelope's
BoxClient_health_as_envelope ==
    /\ pc = "idle"
    /\ \E r \in Responses :
        Call("BoxClient::health", <<Request("GET", "/healthz", "none", <<>>, <<>>)>>, r,
             IF r.send = "ok"
             THEN Q(text(r), LAMBDA raw :
                  Q(from_str(Health, raw.raw), LAMBDA health :
                  IF health.fields["success"].b
                  THEN Ok(VStruct("Health", health.fields))
                  ELSE Err("Machinebox", <<Lit("Request failed")>>)))
             ELSE Err("Reqwest", <<Lit("send")>>))

BoxClient_health ==
    /\ pc = "idle"
    /\ \E r \in Responses :
        Call("BoxClient::health", <<Request("GET", "/healthz", "none", <<>>, <<>>)>>, r,
             IF r.send = "ok"
             THEN Q(text(r), LAMBDA raw :
                  Q(from_str(Health, raw.raw), LAMBDA health :
                  Ok(VStruct("Health", health.fields))))
             ELSE Err("Reqwest", <<Lit("send")>>))

BoxClient_is_live ==
    /\ pc = "idle"
    /\ \E r \in Responses :
        Call("BoxClient::is_live", <<Request("GET", "/liveness", "none", <<>>, <<>>)>>, r,
             IF r.send = "ok"
             THEN Ok(VBool(r.status = StatusOk))
             ELSE Err("Reqwest", <<Lit("send")>>))

\* is_ready, were a status other than 200 reported as a service error
BoxClient_is_ready_checked ==
    /\ pc = "idle"
    /\ \E r \in Responses :
        Call("BoxClient::is_ready", <<Request("GET", "/readyz", "none", <<>>, <<>>)>>, r,
             IF r.send = "ok"
             THEN IF r.status = StatusOk
                  THEN Ok(VBool(TRUE))
                  ELSE Err("Machinebox", <<Lit("HTTP "), StatusPiece(r.status)>>)
             ELSE Err("Reqwest", <<Lit("send")>>))

BoxClient_is_ready ==
    /\ pc = "idle"
    /\ \E r \in Responses :
        Call("BoxClient::is_ready", <<Request("GET", "/readyz", "none", <<>>, <<>>)>>, r,
             IF r.send = "ok"
             THEN Ok(VBool(r.status = StatusOk))
             ELSE Err("Reqwest", <<Lit("send")>>))

(************************** Facebox (facebox/mod.rs) ***********************)
Facebox_check ==
    /\ pc = "idle"
    /\ \E r \in Responses :
        LET h == post_multipart_reader("/facebox/check", r)
        IN  Call("Facebox::check", h.reqs, r,
                 Q(h.res, LAMBDA raw :
                 Q(from_str(facebox_CheckResponseFull, raw.raw), LAMBDA checkreply :
                 facebox_CheckResponseFull_into(checkreply.fields))))

Facebox_check_path ==
    /\ pc = "idle"
    /\ \E c \in FileCases :
        LET h == post_multipart_file("/facebox/check", c.fileOk, c.r)
        IN  FileCall("Facebox::check_path", File(c.fileOk, NoBody), h.reqs, c.r,
                 Q(h.res, LAMBDA raw :
                 Q(from_str(facebox_CheckResponseFull, raw.raw), LAMBDA checkreply :
                 facebox_CheckResponseFull_into(checkreply.fields))))

Facebox_check_base64 ==
    /\ pc = "idle"
    /\ \E r \in Responses :
        LET h == post_form_vars("/facebox/check", <<"base64">>, r)
        IN  Call("Facebox::check_base64", h.reqs, r,
                 Q(h.res, LAMBDA s :
                 Q(from_str(facebox_CheckResponseFull, s.raw), LAMBDA checkreply :
                 facebox_CheckResponseFull_into(checkreply.fields))))

Facebox_check_url ==
    /\ pc = "idle"
    /\ \E r \in Responses :
        LET h == post_json("/facebox/check", r)
        IN  Call("Facebox::check_url", h.reqs, r,
                 Q(h.res, LAMBDA s :
                 Q(from_str(facebox_CheckResponseFull, s.raw), LAMBDA checkreply :
                 facebox_CheckResponseFull_into(checkreply.fields))))

Facebox_similar ==
    /\ pc = "idle"
    /\ \E r \in Responses :
        LET h == post_multipart_reader("/facebox/similar", r)
        IN  Call("Facebox::similar", h.reqs, r,
                 Q(h.res, LAMBDA raw :
                 Q(from_str(facebox_SimilarResponseFull, raw.raw), LAMBDA similar_reply :
                 facebox_SimilarResponseFull_into(similar_reply.fields))))

Facebox_similar_url ==
    /\ pc = "idle"
    /\ \E r \in Responses :
        LET h == post_json("/facebox/similar", r)
        IN  Call("Facebox::similar_url", h.reqs, r,
                 Q(h.res, LAMBDA s :
                 Q(from_str(facebox_SimilarResponseFull, s.raw), LAMBDA similar_reply :
                 facebox_SimilarResponseFull_into(similar_reply.fields))))

Facebox_similar_id ==
    /\ pc = "idle"
    /\ \E r \in Responses :
        LET h == get_json("/facebox/similar?id={id}", r)
        IN  Call("Facebox::similar_id", h.reqs, r,
                 Q(h.res, LAMBDA s :
                 Q(from_str(facebox_SimilarResponseFull, s.raw), LAMBDA similar_reply :
                 facebox_SimilarResponseFull_into(similar_reply.fields))))

Facebox_similar_base64 ==
    /\ pc = "idle"
    /\ \E r \in Responses :
        LET h == post_form_vars("/facebox/similar", <<"base64">>, r)
        IN  Call("Facebox::similar_base64", h.reqs, r,
                 Q(h.res, LAMBDA s :
                 Q(from_str(facebox_SimilarResponseFull, s.raw), LAMBDA similar_reply :
                 facebox_SimilarResponseFull_into(similar_reply.fields))))

\* a download_state call: the caller's sink buf, one exchange, reads of up to
\* chunk bytes
Download(name, url) ==
    /\ pc = "idle"
    /\ \E r \in BlobResponses, buf \in Sinks, chunk \in 1..MaxChunk :
        LET d == download_state(url, r, buf, chunk)
        IN  /\ pc' = "returned"
            /\ op' = name
            /\ req' = d.reqs
            /\ resp' = r
            /\ result' = d.res
            /\ sinkBefore' = buf
            /\ sink' = d.sink
            /\ UNCHANGED <<file, boxUrl, threads, conns, stream, builderVars>>

Facebox_download_state ==
    Download("Facebox::download_state", "/facebox/state")

Facebox_post_state ==
    /\ pc = "idle"
    /\ \E c \in FileCases :
        LET h == post_multipart_file("/facebox/state", c.fileOk, c.r)
        IN  FileCall("Facebox::post_state", File(c.fileOk, NoBody), h.reqs, c.r,
                 Q(h.res, LAMBDA raw :
                 Q(from_str(RawBoxResponse, raw.raw), LAMBDA state_response :
                 RawBoxResponse_into(state_response.fields))))

Facebox_post_state_url ==
    /\ pc = "idle"
    /\ \E r \in Responses :
        LET h == post_form_vars("/facebox/state", <<"url">>, r)
        IN  Call("Facebox::post_state_url", h.reqs, r,
                 Q(h.res, LAMBDA raw :
                 Q(from_str(RawBoxResponse, raw.raw), LAMBDA state_response :
                 RawBoxResponse_into(state_response.fields))))

Facebox_teach ==
    /\ pc = "idle"
    /\ \E r \in Responses :
        LET h == post_multipart_reader_parts("/facebox/teach", <<"id", "name">>, r)
        IN  Call("Facebox::teach", h.reqs, r,
                 Q(h.res, LAMBDA raw :
                 Q(from_str(RawBoxResponse, raw.raw), LAMBDA teach_response :
                 RawBoxResponse_into(teach_response.fields))))

Facebox_teach_url ==
    /\ pc = "idle"
    /\ \E r \in Responses :
        LET h == post_form_vars("/facebox/teach", <<"url", "id", "name">>, r)
        IN  Call("Facebox::teach_url", h.reqs, r,
                 Q(h.res, LAMBDA raw :
                 Q(from_str(RawBoxResponse, raw.raw), LAMBDA teach_response :
                 RawBoxResponse_into(teach_response.fields))))

Facebox_remove ==
    /\ pc = "idle"
    /\ \E r \in Responses :
        LET h == delete_with_response("/facebox/teach/{id}", r)
        IN  Call("Facebox::remove", h.reqs, r,
                 Q(h.res, LAMBDA raw :
                 Q(from_str(RawBoxResponse, raw.raw), LAMBDA remove_response :
                 RawBoxResponse_into(remove_response.fields))))

Facebox_rename ==
    /\ pc = "idle"
    /\ \E r \in Responses :
        LET h == patch_json("/facebox/teach/{id}", r)
        IN  Call("Facebox::rename", h.reqs, r,
                 Q(h.res, LAMBDA raw :
                 Q(from_str(RawBoxResponse, raw.raw), LAMBDA rename_response :
                 RawBoxResponse_into(rename_response.fields))))

Facebox_rename_all ==
    /\ pc = "idle"
    /\ \E r \in Responses :
        LET h == post_form_vars("/facebox/rename", <<"from", "to">>, r)
        IN  Call("Facebox::rename_all", h.reqs, r,
                 Q(h.res, LAMBDA raw :
                 Q(from_str(RawBoxResponse, raw.raw), LAMBDA rename_response :
                 RawBoxResponse_into(rename_response.fields))))

(************************** Tagbox (tagbox/mod.rs) *************************)
Tagbox_check ==
    /\ pc = "idle"
    /\ \E r \in Responses :
        LET h == post_multipart_reader("/tagbox/check", r)
        IN  Call("Tagbox::check", h.reqs, r,
                 Q(h.res, LAMBDA raw :
                 Q(from_str(tagbox_CheckResponseFull, raw.raw), LAMBDA checkreply :
                 tagbox_CheckResponseFull_into(checkreply.fields))))

Tagbox_check_path ==
    /\ pc = "idle"
    /\ \E c \in FileCases :
        LET h == post_multipart_file("/tagbox/check", c.fileOk, c.r)
        IN  FileCall("Tagbox::check_path", File(c.fileOk, NoBody), h.reqs, c.r,
                 Q(h.res, LAMBDA raw :
                 Q(from_str(tagbox_CheckResponseFull, raw.raw), LAMBDA checkreply :
                 tagbox_CheckResponseFull_into(checkreply.fields))))

Tagbox_check_base64 ==
    /\ pc = "idle"
    /\ \E r \in Responses :
        LET h == post_form_vars("/tagbox/check", <<"base64">>, r)
        IN  Call("Tagbox::check_base64", h.reqs, r,
                 Q(h.res, LAMBDA s :
                 Q(from_str(tagbox_CheckResponseFull, s.raw), LAMBDA checkreply :
                 tagbox_CheckResponseFull_into(checkreply.fields))))

Tagbox_check_url ==
    /\ pc = "idle"
    /\ \E r \in Responses :
        LET h == post_json("/tagbox/check", r)
        IN  Call("Tagbox::check_url", h.reqs, r,
                 Q(h.res, LAMBDA s :
                 Q(from_str(tagbox_CheckResponseFull, s.raw), LAMBDA checkreply :
                 tagbox_CheckResponseFull_into(checkreply.fields))))

Tagbox_teach_url ==
    /\ pc = "idle"
    /\ \E r \in Responses :
        LET h == post_json("/tagbox/teach", r)
        IN  Call("Tagbox::teach_url", h.reqs, r,
                 Q(h.res, LAMBDA s :
                 Q(from_str(TeachResponse, s.raw), LAMBDA teachreply :
                 TeachResponse_into(teachreply.fields))))

Tagbox_remove_custom_tag ==
    /\ pc = "idle"
    /\ \E r \in Responses :
        LET h == delete_with_response("/tagbox/teach/{id}", r)
        IN  Call("Tagbox::remove_custom_tag", h.reqs, r,
                 Q(h.res, LAMBDA s :
                 Q(from_str(TeachResponse, s.raw), LAMBDA teachreply :
                 TeachResponse_into(teachreply.fields))))

Tagbox_rename_custom_tag ==
    /\ pc = "idle"
    /\ \E r \in Responses :
        LET h == patch_json("/tagbox/teach/{id}", r)
        IN  Call("Tagbox::rename_custom_tag", h.reqs, r,
                 Q(h.res, LAMBDA s :
                 Q(from_str(TeachResponse, s.raw), LAMBDA teachreply :
                 TeachResponse_into(teachreply.fields))))

Tagbox_similar_file ==
    /\ pc = "idle"
    /\ \E c \in FileCases :
        LET h == post_multipart_file("/tagbox/similar", c.fileOk, c.r)
        IN  FileCall("Tagbox::similar_file", File(c.fileOk, NoBody), h.reqs, c.r,
                 Q(h.res, LAMBDA s :
                 Q(from_str(tagbox_SimilarResponse, s.raw), LAMBDA similar :
                 tagbox_SimilarResponse_into(similar.fields))))

Tagbox_similar_url ==
    /\ pc = "idle"
    /\ \E r \in Responses :
        LET h == post_form_vars("/tagbox/similar", <<"url">>, r)
        IN  Call("Tagbox::similar_url", h.reqs, r,
                 Q(h.res, LAMBDA s :
                 Q(from_str(tagbox_SimilarResponse, s.raw), LAMBDA similar :
                 tagbox_SimilarResponse_into(similar.fields))))

Tagbox_similar_base64 ==
    /\ pc = "idle"
    /\ \E r \in Responses :
        LET h == post_form_vars("/tagbox/similar", <<"base64">>, r)
        IN  Call("Tagbox::similar_base64", h.reqs, r,
                 Q(h.res, LAMBDA s :
                 Q(from_str(tagbox_SimilarResponse, s.raw), LAMBDA similar :
                 tagbox_SimilarResponse_into(similar.fields))))

Tagbox_download_state ==
    Download("Tagbox::download_state", "/tagbox/state")

Tagbox_post_state ==
    /\ pc = "idle"
    /\ \E c \in FileCases :
        LET h == post_multipart_file("/tagbox/state", c.fileOk, c.r)
        IN  FileCall("Tagbox::post_state", File(c.fileOk, NoBody), h.reqs, c.r,
                 Q(h.res, LAMBDA raw :
                 Q(from_str(RawBoxResponse, raw.raw), LAMBDA state_response :
                 RawBoxResponse_into(state_response.fields))))

Tagbox_post_state_url ==
    /\ pc = "idle"
    /\ \E r \in Responses :
        LET h == post_form_vars("/tagbox/state", <<"url">>, r)
        IN  Call("Tagbox::post_state_url", h.reqs, r,
                 Q(h.res, LAMBDA raw :
                 Q(from_str(RawBoxResponse, raw.raw), LAMBDA state_response :
                 RawBoxResponse_into(state_response.fields))))

(************************** Textbox (textbox.rs) ***************************)
Textbox_check ==
    /\ pc = "idle"
    /\ \E r \in Responses :
        Call("Textbox::check", <<Request("POST", "/textbox/check", "form", <<>>, <<"text">>)>>, r,
             IF r.send = "ok"
             THEN Q(text(r), LAMBDA raw :
                  Q(from_str(Analysis, raw.raw), LAMBDA analysis :
                  Ok(VStruct("Analysis", analysis.fields))))
             ELSE Err("Reqwest", <<Lit("send")>>))

(************************** Videobox (videobox/mod.rs) *********************)
\* the option keys of a CheckOptions, in the order its iterator yields them
CheckOptionsChoices == {<<>>, <<"skipframes">>, <<"skipframes", "frameWidth">>}

Videobox_check_url ==
    /\ pc = "idle"
    /\ \E r \in Responses, options \in CheckOptionsChoices :
        LET h == post_form_vars("/videobox/check", <<"url">> \o options, r)
        IN  Call("Videobox::check_url", h.reqs, r,
                 Q(h.res, LAMBDA s :
                 Q(from_str(VideoResponse, s.raw), LAMBDA video_result :
                 VideoResponse_into(video_result.fields))))

\* delete, were the body decoded as an acknowledgement envelope
Videobox_delete_decoding ==
    /\ pc = "idle"
    /\ \E r \in Responses :
        LET h == delete_with_response("/videobox/results/{id}", r)
        IN  Call("Videobox::delete", h.reqs, r,
                 Q(h.res, LAMBDA raw :
                 Q(from_str(RawBoxResponse, raw.raw), LAMBDA reply :
                 RawBoxResponse_into(reply.fields))))

Videobox_delete ==
    /\ pc = "idle"
    /\ \E r \in Responses :
        LET h == delete_with_response("/videobox/results/{id}", r)
        IN  Call("Videobox::delete", h.reqs, r,
                 Q(h.res, LAMBDA ignored : Ok(VUnit)))

Videobox_results ==
    /\ pc = "idle"
    /\ \E r \in Responses :
        LET h == get_json("/videobox/results/{id}", r)
        IN  Call("Videobox::results", h.reqs, r,
                 Q(h.res, LAMBDA s :
                 Q(from_str(VideoAnalysisResponse, s.raw), LAMBDA analysis :
                 VideoAnalysisResponse_into(analysis.fields))))

Videobox_status ==
    /\ pc = "idle"
    /\ \E r \in Responses :
        LET h == get_json("/videobox/status/{id}", r)
        IN  Call("Videobox::status", h.reqs, r,
                 Q(h.res, LAMBDA s :
                 Q(from_str(VideoResponse, s.raw), LAMBDA video :
                 VideoResponse_into(video.fields))))

(************************** Suggestionbox (suggestionbox/mod.rs) ***********)
Suggestionbox_create_model ==
    /\ pc = "idle"
    /\ \E r \in Responses :
        Call("Suggestionbox::create_model",
             <<Request("POST", "/suggestionbox/models", "json", <<>>, <<>>)>>, r,
             IF r.send = "ok"
             THEN Q(text(r), LAMBDA raw :
                    IF r.status = StatusOk
                    THEN Q(from_str(Model, raw.raw), LAMBDA newmodel :
                           Ok(VStruct("Model", newmodel.fields)))
                    ELSE Err("Machinebox", <<RawPiece(raw.raw)>>))
             ELSE Err("Reqwest", <<Lit("send")>>))

\* delete_model, were the body read before the status is tested
Suggestionbox_delete_model_reads_body ==
    /\ pc = "idle"
    /\ \E r \in Responses :
        Call("Suggestionbox::delete_model",
             <<Request("DELETE", "/suggestionbox/models/{id}", "none", <<>>, <<>>)>>, r,
             IF r.send = "ok"
             THEN Q(text(r), LAMBDA raw :
                    IF r.status = StatusOk
                    THEN Ok(VUnit)
                    ELSE Err("Machinebox", <<Lit("HTTP "), StatusPiece(r.status)>>))
             ELSE Err("Reqwest", <<Lit("send")>>))

Suggestionbox_delete_model ==
    /\ pc = "idle"
    /\ \E r \in Responses :
        Call("Suggestionbox::delete_model",
             <<Request("DELETE", "/suggestionbox/models/{id}", "none", <<>>, <<>>)>>, r,
             IF r.send = "ok"
             THEN IF r.status = StatusOk
                  THEN Ok(VUnit)
                  ELSE Err("Machinebox", <<Lit("HTTP "), StatusPiece(r.status)>>)
             ELSE Err("Reqwest", <<Lit("send")>>))

Suggestionbox_get_model ==
    /\ pc = "idle"
    /\ \E r \in Responses :
        Call("Suggestionbox::get_model",
             <<Request("GET", "/suggestionbox/models/{id}", "none", <<>>, <<>>)>>, r,
             IF r.send = "ok"
             THEN Q(text(r), LAMBDA raw :
                    IF r.status # StatusOk
                    THEN Err("Machinebox", HttpStatusAndBody(r.status, raw.raw))
                    ELSE Q(from_str(Model, raw.raw), LAMBDA model :
                           Ok(VStruct("Model", model.fields))))
             ELSE Err("Reqwest", <<Lit("send")>>))

Suggestionbox_list_models ==
    /\ pc = "idle"
    /\ \E r \in Responses :
        Call("Suggestionbox::list_models",
             <<Request("GET", "/suggestionbox/models", "none", <<>>, <<>>)>>, r,
             IF r.send = "ok"
             THEN Q(text(r), LAMBDA raw :
                  Q(from_str(ModelList, raw.raw), LAMBDA response :
                  Ok(VStruct("Vec<Model>", Pick(response.fields, {"models"})))))
             ELSE Err("Reqwest", <<Lit("send")>>))

Suggestionbox_get_model_stats ==
    /\ pc = "idle"
    /\ \E r \in Responses :
        Call("Suggestionbox::get_model_stats",
             <<Request("GET", "/suggestionbox/models/{id}/stats", "none", <<>>, <<>>)>>, r,
             IF r.send = "ok"
             THEN Q(text(r), LAMBDA raw :
                    IF r.status # StatusOk
                    THEN Err("Machinebox", HttpStatusAndBody(r.status, raw.raw))
                    ELSE Q(from_str(ModelStats, raw.raw), LAMBDA stats :
                           Ok(VStruct("ModelStats", stats.fields))))
             ELSE Err("Reqwest", <<Lit("send")>>))

Suggestionbox_predict ==
    /\ pc = "idle"
    /\ \E r \in Responses :
        Call("Suggestionbox::predict",
             <<Request("POST", "/suggestionbox/models/{id}/predict", "json", <<>>, <<>>)>>, r,
             IF r.send = "ok"
             THEN Q(text(r), LAMBDA raw :
                    IF r.status # StatusOk
                    THEN Err("Machinebox", HttpStatusAndBody(r.status, raw.raw))
                    ELSE Q(from_str(PredictionResponse, raw.raw), LAMBDA prediction :
                           Ok(VStruct("PredictionResponse", prediction.fields))))
             ELSE Err("Reqwest", <<Lit("send")>>))

Suggestionbox_reward ==
    /\ pc = "idle"
    /\ \E r \in Responses :
        Call("Suggestionbox::reward",
             <<Request("POST", "/suggestionbox/models/{id}/rewards", "json", <<>>, <<>>)>>, r,
             IF r.send = "ok"
             THEN Q(text(r), LAMBDA raw :
                    IF r.status # StatusOk
                    THEN Err("Machinebox", HttpStatusAndBody(r.status, raw.raw))
                    ELSE Ok(VUnit))
             ELSE Err("Reqwest", <<Lit("send")>>))

Suggestionbox_download_state ==
    Download("Suggestionbox::download_state", "/suggestionbox/state/{id}")

Suggestionbox_post_state ==
    /\ pc = "idle"
    /\ \E c \in FileCases :
        IF ~c.fileOk
        THEN FileCall("Suggestionbox::post_state", File(FALSE, NoBody), <<>>, c.r,
                  From(Err("std::io::Error", <<Lit("open")>>)))
        ELSE FileCall("Suggestionbox::post_state", File(TRUE, NoBody),
                  <<Request("POST", "/suggestionbox/state", "multipart", <<"state">>, <<>>)>>,
                  c.r,
                  IF c.r.send = "ok"
                  THEN Q(text(c.r), LAMBDA raw :
                         IF c.r.status # StatusOk
                         THEN Err("Machinebox", HttpStatusAndBody(c.r.status, raw.raw))
                         ELSE Q(from_str(Model, raw.raw), LAMBDA model :
                                Ok(VStruct("Model", model.fields))))
                  ELSE Err("Reqwest", <<Lit("send")>>))

Suggestionbox_post_state_url ==
    /\ pc = "idle"
    /\ \E r \in Responses :
        Call("Suggestionbox::post_state_url",
             <<Request("POST", "/suggestionbox/state", "form", <<>>, <<"url">>)>>, r,
             IF r.send = "ok"
             THEN Q(text(r), LAMBDA raw :
                    IF r.status # StatusOk
                    THEN Err("Machinebox", HttpStatusAndBody(r.status, raw.raw))
                    ELSE Q(from_str(Model, raw.raw), LAMBDA model :
                           Ok(VStruct("Model", model.fields))))
             ELSE Err("Reqwest", <<Lit("send")>>))

(************************** Model (suggestionbox/types.rs) *****************)
\* the files Model::from_file may be given
ModelFiles == {File(FALSE, NoBody)} \cup {File(TRUE, b) : b \in Bodies}

\* Model::from_file: read the whole file, then parse it
Model_from_file ==
    /\ pc = "idle"
    /\ \E f \in ModelFiles :
        FileCall("Model::from_file", f, <<>>, NoResp,
                 Q(IF f.ok THEN Ok(VRaw(f.contents))
                   ELSE Err("std::io::Error", <<Lit("read")>>), LAMBDA contents :
                 Q(from_str(Model, contents.raw), LAMBDA m :
                 Ok(VStruct("Model", m.fields)))))

Next ==
    \/ BoxClient_info \/ BoxClient_health \/ BoxClient_is_live \/ BoxClient_is_ready
    \/ Facebox_check \/ Facebox_check_path \/ Facebox_check_base64 \/ Facebox_check_url
    \/ Facebox_similar \/ Facebox_similar_url \/ Facebox_similar_id
    \/ Facebox_similar_base64 \/ Facebox_download_state \/ Facebox_post_state
    \/ Facebox_post_state_url \/ Facebox_teach \/ Facebox_teach_url \/ Facebox_remove
    \/ Facebox_rename \/ Facebox_rename_all
    \/ Tagbox_check \/ Tagbox_check_path \/ Tagbox_check_base64 \/ Tagbox_check_url
    \/ Tagbox_teach_url \/ Tagbox_remove_custom_tag \/ Tagbox_rename_custom_tag
    \/ Tagbox_similar_file \/ Tagbox_similar_url \/ Tagbox_similar_base64
    \/ Tagbox_download_state \/ Tagbox_post_state \/ Tagbox_post_state_url
    \/ Textbox_check
    \/ Videobox_check_url \/ Videobox_delete \/ Videobox_results \/ Videobox_status
    \/ Suggestionbox_create_model \/ Suggestionbox_delete_model
    \/ Suggestionbox_get_model \/ Suggestionbox_list_models
    \/ Suggestionbox_get_model_stats \/ Suggestionbox_predict \/ Suggestionbox_reward
    \/ Suggestionbox_download_state \/ Suggestionbox_post_state
    \/ Suggestionbox_post_state_url
    \/ Model_from_file
    \/ Return

Spec == Init /\ [][Next]_vars

(***************************************************************************)
(* Calls that run concurrently on separate threads.  A call builds its url *)
(* from the box client value, creates its own reqwest::Client, sends one   *)
(* request on it and blocks until the response is there; the environment   *)
(* answers the requests in any order.                                      *)
(***************************************************************************)
\* the operations the threads call, and what their endpoints answer
ThreadOps == {"Facebox::teach_url", "Tagbox::remove_custom_tag", "BoxClient::is_live"}
ThreadResponses ==
    {SendFail,
     Response(StatusOk, ObjBody(F1("success", JBool(TRUE))), TRUE, 0, -1),
     Response(StatusOk, ObjBody([success |-> JBool(FALSE), error |-> JStr("bad image")]),
              TRUE, 0, -1),
     Response(404, TextBody("not found"), TRUE, 0, -1)}

\* the box client value each operation is a method of (is_live is a method
\* of every box client)
BoxesOf(o) ==
    CASE o = "Facebox::teach_url"        -> {"facebox"}
      [] o = "Tagbox::remove_custom_tag" -> {"tagbox"}
      [] OTHER                           -> BoxClients

PathOf(o) ==
    CASE o = "Facebox::teach_url"        -> "/facebox/teach"
      [] o = "Tagbox::remove_custom_tag" -> "/tagbox/teach/{id}"
      [] OTHER                           -> "/liveness"

\* what operation o returns when its request is answered with r
Outcome(o, r) ==
    CASE o = "Facebox::teach_url" ->
            Q(post_form_vars(PathOf(o), <<"url", "id", "name">>, r).res, LAMBDA raw :
            Q(from_str(RawBoxResponse, raw.raw), LAMBDA teach_response :
            RawBoxResponse_into(teach_response.fields)))
      [] o = "Tagbox::remove_custom_tag" ->
            Q(delete_with_response(PathOf(o), r).res, LAMBDA s :
            Q(from_str(TeachResponse, s.raw), LAMBDA teachreply :
            TeachResponse_into(teachreply.fields)))
      [] OTHER ->
            IF r.send = "ok" THEN Ok(VBool(r.status = StatusOk))
            ELSE Err("Reqwest", <<Lit("send")>>)

\* Client::new, were one client object shared by every call
Client_new_shared(cs) == 0

\* reqwest::Client::new(): a client object no other call holds
Client_new(cs) ==
    CHOOSE c \in DOMAIN cs : ~cs[c].busy /\ \A d \in DOMAIN cs : d < c => cs[d].busy

\* thread t calls operation o of box client b: the url is built from the
\* client's base url, a client object is created and the request is sent on it
ThreadSend(t) ==
    /\ threads[t].pc = "idle"
    /\ \E o \in ThreadOps : \E b \in BoxesOf(o) :
        LET url == boxUrl[b] \o PathOf(o)
            client == Client_new(conns)
        IN  /\ threads' = [threads EXCEPT ![t] =
                    [pc |-> "sent", box |-> b, op |-> o, client |-> client, url |-> url,
                     answer |-> NoResp, result |-> NoResult]]
            /\ conns' = [conns EXCEPT ![client] =
                    [busy |-> TRUE, url |-> url, resp |-> NoResp]]
    /\ UNCHANGED <<pc, op, req, resp, result, sinkBefore, sink, file, boxUrl, stream, builderVars>>

\* the environment answers the request thread t is waiting on; answer keeps
\* the response that was given to this call
Answer(t) ==
    /\ threads[t].pc = "sent"
    /\ threads[t].answer = NoResp
    /\ \E r \in ThreadResponses :
        /\ threads' = [threads EXCEPT ![t].answer = r]
        /\ conns' = [conns EXCEPT ![threads[t].client].resp = r]
    /\ UNCHANGED <<pc, op, req, resp, result, sinkBefore, sink, file, boxUrl, stream, builderVars>>

\* send() returns in thread t: the call reads the response of its client
\* object, computes its result and drops the client
ThreadReturn(t) ==
    /\ threads[t].pc = "sent"
    /\ conns[threads[t].client].resp # NoResp
    /\ threads' = [threads EXCEPT
            ![t].pc = "returned",
            ![t].result = Outcome(threads[t].op, conns[threads[t].client].resp)]
    /\ conns' = [conns EXCEPT ![threads[t].client] = FreeConn]
    /\ UNCHANGED <<pc, op, req, resp, result, sinkBefore, sink, file, boxUrl, stream, builderVars>>

\* the caller in thread t drops the result
ThreadDone(t) ==
    /\ threads[t].pc = "returned"
    /\ threads' = [threads EXCEPT ![t] = IdleThread]
    /\ UNCHANGED <<pc, op, req, resp, result, sinkBefore, sink, file, boxUrl, conns,
                   stream, builderVars>>

NextThreads ==
    \/ \E t \in Threads : ThreadSend(t)
    \/ \E t \in Threads : Answer(t)
    \/ \E t \in Threads : ThreadReturn(t)
    \/ \E t \in Threads : ThreadDone(t)

SpecThreads == Init /\ [][NextThreads]_vars

(***************************************************************************)
(* A streaming call, step by step.  An upload takes the caller's reader by *)
(* value: it is moved into the multipart form, the form into the request,  *)
(* and send() consumes the request.  A download borrows the caller's sink  *)
(* (&mut W) until the function returns.  Each exit of the function (a ?, a *)
(* match arm, the last expression) is a step that ends the call.           *)
(***************************************************************************)
\* the call returns out; the borrow of the sink ends, a reader that was moved
\* into the request has been dropped with it
StreamExit(out, holder) ==
    /\ pc' = "returned"
    /\ result' = out
    /\ stream' = holder

\* Facebox::check(reader): Part::reader(reader) and Form::part move the
\* reader into the form
UploadBegin ==
    /\ pc = "idle"
    /\ pc' = "form"
    /\ op' = "Facebox::check"
    /\ stream' = "call"
    /\ UNCHANGED <<req, resp, result, sinkBefore, sink, file, boxUrl, threads, conns, builderVars>>

\* UploadSend, were the form kept for another try when send fails
UploadSend_keeps_form ==
    /\ pc = "form"
    /\ req' = post_multipart_reader("/facebox/check", SendFail).reqs
    /\ \E r \in Responses :
        /\ resp' = r
        /\ IF r.send # "ok"
           THEN StreamExit(Err("Reqwest", <<Lit("send")>>), "call")
           ELSE /\ pc' = "response"
                /\ stream' = "closed"
                /\ UNCHANGED result
    /\ UNCHANGED <<op, sinkBefore, sink, file, boxUrl, threads, conns, builderVars>>

\* client.post(&url).multipart(form).send(): the request, the form and the
\* reader in it are consumed, whether send succeeds or fails
UploadSend ==
    /\ pc = "form"
    /\ req' = post_multipart_reader("/facebox/check", SendFail).reqs
    /\ \E r \in Responses :
        /\ resp' = r
        /\ IF r.send # "ok"
           THEN StreamExit(Err("Reqwest", <<Lit("send")>>), "closed")
           ELSE /\ pc' = "response"
                /\ stream' = "closed"
                /\ UNCHANGED result
    /\ UNCHANGED <<op, sinkBefore, sink, file, boxUrl, threads, conns, builderVars>>

\* the rest of the call: the body is read, the status tested, the envelope
\* decoded
UploadFinish ==
    /\ pc = "response"
    /\ op = "Facebox::check"
    /\ StreamExit(Q(post_multipart_reader("/facebox/check", resp).res, LAMBDA raw :
                   Q(from_str(facebox_CheckResponseFull, raw.raw), LAMBDA checkreply :
                   facebox_CheckResponseFull_into(checkreply.fields))),
                  stream)
    /\ UNCHANGED <<op, req, resp, sinkBefore, sink, file, boxUrl, threads, conns, builderVars>>

\* Tagbox::download_state(buf): the call borrows the caller's sink
DownloadBegin ==
    /\ pc = "idle"
    /\ \E buf \in Sinks :
        /\ sinkBefore' = buf
        /\ sink' = buf
    /\ pc' = "get"
    /\ op' = "Tagbox::download_state"
    /\ stream' = "call"
    /\ UNCHANGED <<req, resp, result, file, boxUrl, threads, conns, builderVars>>

\* reqwest::get(&url)?: a failed request returns at once
DownloadGet ==
    /\ pc = "get"
    /\ req' = <<Request("GET", "/tagbox/state", "none", <<>>, <<>>)>>
    /\ \E r \in BlobResponses :
        /\ resp' = r
        /\ IF r.send # "ok"
           THEN StreamExit(From(Err("reqwest::Error", <<Lit("send")>>)), "caller")
           ELSE /\ pc' = "response"
                /\ UNCHANGED <<result, stream>>
    /\ UNCHANGED <<op, sinkBefore, sink, file, boxUrl, threads, conns, builderVars>>

\* a status other than 200: the body text is read and the call returns an error
DownloadNot200 ==
    /\ pc = "response"
    /\ op = "Tagbox::download_state"
    /\ resp.status # StatusOk
    /\ StreamExit(Q(text(resp), LAMBDA raw :
                     Err("Machinebox", HttpStatusAndBody(resp.status, raw.raw))),
                  "caller")
    /\ UNCHANGED <<op, req, resp, sinkBefore, sink, file, boxUrl, threads, conns, builderVars>>

\* resp.copy_to(buf)?: the body is copied into the sink; the call returns the
\* count, or the error of a read that failed
DownloadCopy ==
    /\ pc = "response"
    /\ op = "Tagbox::download_state"
    /\ resp.status = StatusOk
    /\ \E chunk \in 1..MaxChunk :
        LET c == copy_to(resp, sink, chunk)
        IN  /\ sink' = c.sink
            /\ StreamExit(Q(c.res, LAMBDA bytecount : Ok(bytecount)), "caller")
    /\ UNCHANGED <<op, req, resp, sinkBefore, file, boxUrl, threads, conns, builderVars>>

\* the caller drops the result and takes up a new reader or sink
StreamDone ==
    /\ pc = "returned"
    /\ pc' = "idle"
    /\ op' = "none"
    /\ req' = <<>>
    /\ resp' = NoResp
    /\ result' = NoResult
    /\ sinkBefore' = <<>>
    /\ sink' = <<>>
    /\ stream' = "caller"
    /\ UNCHANGED <<file, boxUrl, threads, conns, builderVars>>

NextStream ==
    \/ UploadBegin \/ UploadSend \/ UploadFinish
    \/ DownloadBegin \/ DownloadGet \/ DownloadNot200 \/ DownloadCopy
    \/ StreamDone

SpecStream == Init /\ [][NextStream]_vars

(***************************************************************************)
(* Vocabulary of the properties.                                           *)
(***************************************************************************)
RawBoxOps ==
    {"Facebox::post_state", "Facebox::post_state_url", "Facebox::teach",
     "Facebox::teach_url", "Facebox::remove", "Facebox::rename",
     "Facebox::rename_all", "Tagbox::post_state", "Tagbox::post_state_url"}
TeachOps ==
    {"Tagbox::teach_url", "Tagbox::remove_custom_tag", "Tagbox::rename_custom_tag"}
FaceCheckOps ==
    {"Facebox::check", "Facebox::check_path", "Facebox::check_base64",
     "Facebox::check_url"}
FaceSimilarOps ==
    {"Facebox::similar", "Facebox::similar_url", "Facebox::similar_id",
     "Facebox::similar_base64"}
TagCheckOps ==
    {"Tagbox::check", "Tagbox::check_path", "Tagbox::check_base64",
     "Tagbox::check_url"}
TagSimilarOps ==
    {"Tagbox::similar_file", "Tagbox::similar_url", "Tagbox::similar_base64"}
VideoOps == {"Videobox::check_url", "Videobox::status"}
VideoAnalysisOps == {"Videobox::results"}

\* the facebox and tagbox operations that decode an envelope
FaceTagOps ==
    RawBoxOps \cup TeachOps \cup FaceCheckOps \cup FaceSimilarOps
    \cup TagCheckOps \cup TagSimilarOps
\* the operations that decode one of the eight envelope wire shapes
EnvelopeOps == FaceTagOps \cup VideoOps \cup VideoAnalysisOps

\* the suggestionbox operations the spec lists as returning an envelope
SuggestionOps ==
    {"Suggestionbox::predict", "Suggestionbox::reward",
     "Suggestionbox::create_model", "Suggestionbox::get_model",
     "Suggestionbox::list_models", "Suggestionbox::post_state",
     "Suggestionbox::post_state_url"}

\* every operation whose code parses the response body as JSON
DecodingOps ==
    EnvelopeOps
    \cup (SuggestionOps \ {"Suggestionbox::reward"})
    \cup {"Suggestionbox::get_model_stats", "Textbox::check", "BoxClient::info",
          "BoxClient::health"}

DownloadOps ==
    {"Facebox::download_state", "Tagbox::download_state",
     "Suggestionbox::download_state"}

\* the operations that return what a transport helper of utils.rs returned
HelperOps == EnvelopeOps \cup {"Videobox::delete"}

\* the wire shape operation o parses its body as
WireShapeOf(o) ==
    CASE o \in RawBoxOps        -> RawBoxResponse
      [] o \in TeachOps         -> TeachResponse
      [] o \in FaceCheckOps     -> facebox_CheckResponseFull
      [] o \in FaceSimilarOps   -> facebox_SimilarResponseFull
      [] o \in TagCheckOps      -> tagbox_CheckResponseFull
      [] o \in TagSimilarOps    -> tagbox_SimilarResponse
      [] o \in VideoOps         -> VideoResponse
      [] o \in VideoAnalysisOps -> VideoAnalysisResponse

\* the call returned after an exchange that answered status 200 and a body
\* that was read in full
Answered200 ==
    /\ pc = "returned"
    /\ resp.send = "ok"
    /\ resp.readOk
    /\ resp.status = StatusOk

\* ... or another status
AnsweredNot200 ==
    /\ pc = "returned"
    /\ resp.send = "ok"
    /\ resp.readOk
    /\ resp.status # StatusOk

HasField(body, k) == body.kind = "object" /\ k \in DOMAIN body.fields
FieldIs(body, k, v) == HasField(body, k) /\ body.fields[k] = v

\* the message an envelope's error field asks for
ExpectedMessage(body) ==
    IF HasField(body, "error") /\ body.fields["error"].t = "string"
    THEN <<Lit(body.fields["error"].s)>>
    ELSE <<Lit("Request failed")>>

IsServiceError(res) == res.tag = "Err" /\ res.kind = "Machinebox"
IsDecodeError(res) == res.tag = "Err" /\ res.kind = "Serialization"

ContainsStatus(msg, st) == \E i \in DOMAIN msg : msg[i].piece = "status" /\ msg[i].code = st
ContainsBody(msg, body) == \E i \in DOMAIN msg : msg[i].piece = "raw" /\ msg[i].body = body

(***************************************************************************)
(* C1: for every envelope wire shape, a parsed envelope with success ==    *)
(* true converts to Ok with a value built only from the payload fields,    *)
(* whatever the error field holds.                                         *)
(***************************************************************************)
C1_SuccessEnvelopeIsOk ==
    (/\ Answered200
     /\ op \in EnvelopeOps
     /\ FieldIs(resp.body, "success", JBool(TRUE))
     /\ from_str(WireShapeOf(op), resp.body).tag = "Ok")
    => /\ result.tag = "Ok"
       /\ DOMAIN result.val.fields \cap {"success", "error"} = {}

(***************************************************************************)
(* C2: for the facebox and tagbox operations, status 200 and a parsed      *)
(* envelope with success == false give a Machinebox error whose message    *)
(* is the envelope's error string, or "Request failed" when it has none.   *)
(***************************************************************************)
C2_FailureEnvelopeIsServiceError ==
    (/\ Answered200
     /\ op \in FaceTagOps
     /\ FieldIs(resp.body, "success", JBool(FALSE))
     /\ from_str(WireShapeOf(op), resp.body).tag = "Ok")
    => /\ IsServiceError(result)
       /\ result.msg = ExpectedMessage(resp.body)

C2_Witness ==
    /\ Answered200
    /\ op = "Facebox::check"
    /\ FieldIs(resp.body, "success", JBool(FALSE))
    /\ FieldIs(resp.body, "error", JStr("bad image"))
    /\ IsServiceError(result)
    /\ result.msg = <<Lit("bad image")>>

(***************************************************************************)
(* C3: for Videobox::check_url, status and results, status 200 and a body  *)
(* holding only success == false and an optional error string give a       *)
(* service error with that message, not a decode error.                    *)
(***************************************************************************)
C3_VideoFailureIsServiceError ==
    (/\ Answered200
     /\ op \in VideoOps \cup VideoAnalysisOps
     /\ FieldIs(resp.body, "success", JBool(FALSE))
     /\ DOMAIN resp.body.fields \subseteq {"success", "error"}
     /\ HasField(resp.body, "error") => resp.body.fields["error"].t = "string")
    => /\ IsServiceError(result)
       /\ result.msg = ExpectedMessage(resp.body)

(***************************************************************************)
(* C4: for the suggestionbox operations, status 200 and an envelope with   *)
(* success == false give a service error and never Ok.                     *)
(***************************************************************************)
C4_SuggestionFailureIsServiceError ==
    (/\ Answered200
     /\ op \in SuggestionOps
     /\ FieldIs(resp.body, "success", JBool(FALSE)))
    => IsServiceError(result)

(***************************************************************************)
(* C5: for every envelope wire shape, a JSON object body without a success *)
(* field is a decode (Serialization) error, while leaving out the error    *)
(* field or a defaultable payload field of a body that decodes never makes *)
(* it a decode error.                                                      *)
(***************************************************************************)
\* the fields of the envelope wire shapes that may be left out
DefaultableFields ==
    {"error", "faces", "tags", "custom_tags", "similar", "status",
     "downloadTotal", "downloadComplete", "downloadCompleteEstimate",
     "framesCount", "framesComplete", "lastFrameBase64", "millisecondsComplete",
     "expires", "facebox", "tagbox", "nudebox"}

\* body without the fields drop
Without(body, drop) ==
    ObjBody([k \in (DOMAIN body.fields) \ drop |-> body.fields[k]])

C6_MalformedBodyIsDecodeError ==
    (Answered200 /\ op \in DecodingOps /\ resp.body.kind = "text")
    => IsDecodeError(result)

C6_Witness ==
    /\ Answered200
    /\ op = "Facebox::check"
    /\ resp.body = TextBody("{not json")
    /\ IsDecodeError(result)

(***************************************************************************)
(* C7: every transport helper, on a status other than 200, returns a       *)
(* service error whose message holds the status code and the raw body.     *)
(***************************************************************************)
C7_HelperErrorHoldsStatusAndBody ==
    (AnsweredNot200 /\ op \in HelperOps)
    => /\ IsServiceError(result)
       /\ ContainsStatus(result.msg, resp.status)
       /\ ContainsBody(result.msg, resp.body)

(***************************************************************************)
(* C8: Suggestionbox::list_models and Textbox::check return an error on    *)
(* every status other than 200, whatever the body.                         *)
(***************************************************************************)
C8_Not200IsError ==
    (/\ pc = "returned"
     /\ op \in {"Suggestionbox::list_models", "Textbox::check"}
     /\ resp.send = "ok"
     /\ resp.status # StatusOk)
    => result.tag = "Err"

(***************************************************************************)
(* C9: every public operation returns Ok or Err for every status and body  *)
(* and never panics.                                                       *)
(***************************************************************************)
C9_NeverPanics == pc = "returned" => result.tag \in {"Ok", "Err"}

(***************************************************************************)
(* C10: download_state, on status 200 and a body of N bytes, returns Ok(N) *)
(* and appends exactly those N bytes to the caller's sink, with or without *)
(* a Content-Length header.                                                *)
(***************************************************************************)
C10_DownloadCountsBytes ==
    (Answered200 /\ op \in DownloadOps)
    => /\ result = Ok(VCount(Len(resp.body.bytes)))
       /\ sink = sinkBefore \o resp.body.bytes

C10_Witness ==
    /\ Answered200
    /\ op = "Suggestionbox::download_state"
    /\ resp.body.bytes = TestBlob
    /\ resp.clen = -1
    /\ sinkBefore = <<7>>
    /\ result = Ok(VCount(10))
    /\ sink = <<7>> \o TestBlob

(***************************************************************************)
(* C11: download_state, on a status other than 200, fails with a service   *)
(* error whose message holds the status code and the body text, and leaves *)
(* the caller's sink as it was.                                            *)
(***************************************************************************)
C11_DownloadErrorLeavesSink ==
    (AnsweredNot200 /\ op \in DownloadOps)
    => /\ IsServiceError(result)
       /\ ContainsStatus(result.msg, resp.status)
       /\ ContainsBody(result.msg, resp.body)
       /\ sink = sinkBefore

C11_Witness ==
    /\ AnsweredNot200
    /\ op = "Facebox::download_state"
    /\ resp.status = 404
    /\ Len(resp.body.bytes) > 0
    /\ sinkBefore = <<7>>
    /\ result = Err("Machinebox", HttpStatusAndBody(404, resp.body))
    /\ sink = <<7>>

LocalFailure == file.used /\ ~file.ok

BoxOperation == pc = "returned" /\ op # "Model::from_file"

C13_ExactlyOneRequest == BoxOperation => Len(req) = 1

\* C13 as amended: a call sends exactly one request and never retries,
\* except that a call whose local file cannot be opened sends none.
C13_OneRequestUnlessLocalFailure ==
    BoxOperation => Len(req) = IF LocalFailure THEN 0 ELSE 1

C13_Witness ==
    /\ BoxOperation
    /\ op = "Suggestionbox::post_state"
    /\ LocalFailure
    /\ req = <<>>
    /\ resp = NoResp

(***************************************************************************)
(* C14: a response is a success only when its status is exactly 200: on    *)
(* every other status, other 2xx and 3xx codes included, every transport   *)
(* helper and download_state returns a service error that carries the raw  *)
(* body, also when the body is a well-formed success envelope.             *)
(***************************************************************************)
C14_OnlyStatusOkIsSuccess ==
    (AnsweredNot200 /\ op \in HelperOps \cup DownloadOps)
    => /\ IsServiceError(result)
       /\ ContainsBody(result.msg, resp.body)

C14_Witness ==
    /\ AnsweredNot200
    /\ op = "Facebox::teach"
    /\ resp.status = 201
    /\ resp.body = ObjBody(F1("success", JBool(TRUE)))
    /\ IsServiceError(result)
    /\ ContainsBody(result.msg, resp.body)

(***************************************************************************)
(* C15: when the request itself cannot be completed (send fails), every    *)
(* operation returns a transport (Reqwest) error: never a service error, a *)
(* decode error or an Ok value.                                            *)
(***************************************************************************)
IsTransportError(res) == res.tag = "Err" /\ res.kind = "Reqwest"

C15_SendFailureIsTransportError ==
    (pc = "returned" /\ resp.send = "fail") => IsTransportError(result)

C15_Witness ==
    /\ pc = "returned"
    /\ op = "Facebox::check_url"
    /\ resp = SendFail
    /\ Len(req) = 1
    /\ IsTransportError(result)

(***************************************************************************)
(* C16: every operation that uploads a file as multipart sends exactly one *)
(* file part, named "file"; extra text fields go in separate text parts.   *)
(***************************************************************************)
C16_FilePartIsNamedFile ==
    \A i \in DOMAIN req :
        req[i].enc = "multipart" => req[i].files = <<"file">>

(***************************************************************************)
(* C17: BoxClient::is_live and is_ready return Ok(true) exactly when the   *)
(* status is 200, Ok(false) on every other status, and Err only when the   *)
(* request fails at the transport level.                                   *)
(***************************************************************************)
ProbeOps == {"BoxClient::is_live", "BoxClient::is_ready"}

C17_ProbeReportsStatus ==
    (pc = "returned" /\ op \in ProbeOps)
    => /\ result = Ok(VBool(TRUE)) <=> (resp.send = "ok" /\ resp.status = StatusOk)
       /\ result = Ok(VBool(FALSE)) <=> (resp.send = "ok" /\ resp.status # StatusOk)
       /\ result.tag = "Err" <=> resp.send = "fail"
       /\ result.tag = "Err" => IsTransportError(result)

C17_Witness ==
    /\ pc = "returned"
    /\ op = "BoxClient::is_ready"
    /\ resp.send = "ok"
    /\ resp.status = 503
    /\ result = Ok(VBool(FALSE))

(***************************************************************************)
(* C18: BoxClient::info and health return the parsed body as Ok whenever   *)
(* the body parses, whatever the status and the success flag: a health     *)
(* body with success == false gives Ok(Health) with success == false and   *)
(* the reported errors, never a service error.                             *)
(***************************************************************************)
\* the wire shape info and health parse the body as
ReportShapeOf(o) == IF o = "BoxClient::info" THEN BoxInfo ELSE Health

C18_ReportIsReturnedVerbatim ==
    (/\ pc = "returned"
     /\ op \in {"BoxClient::info", "BoxClient::health"}
     /\ resp.send = "ok"
     /\ resp.readOk
     /\ from_str(ReportShapeOf(op), resp.body).tag = "Ok")
    => /\ result.tag = "Ok"
       /\ DOMAIN result.val.fields = {fs.name : fs \in ReportShapeOf(op)}
       /\ \A k \in DOMAIN result.val.fields \cap DOMAIN resp.body.fields :
              result.val.fields[k] = resp.body.fields[k]

C18_Witness ==
    /\ pc = "returned"
    /\ op = "BoxClient::health"
    /\ resp.send = "ok"
    /\ resp.status = 500
    /\ FieldIs(resp.body, "success", JBool(FALSE))
    /\ result.tag = "Ok"
    /\ result.val.fields["success"] = JBool(FALSE)
    /\ result.val.fields["errors"] = JArr("BoxError", <<"Something went wrong">>)

(***************************************************************************)
(* C19: Suggestionbox::delete_model returns Ok(()) exactly when the status *)
(* is 200, whatever the body, and on every other status a Machinebox error *)
(* whose message names that status.                                        *)
(***************************************************************************)
C19_DeleteModelFollowsStatus ==
    (pc = "returned" /\ op = "Suggestionbox::delete_model" /\ resp.send = "ok")
    => /\ result = Ok(VUnit) <=> resp.status = StatusOk
       /\ resp.status # StatusOk
            => /\ IsServiceError(result)
               /\ ContainsStatus(result.msg, resp.status)

C19_Witness ==
    /\ pc = "returned"
    /\ op = "Suggestionbox::delete_model"
    /\ resp.send = "ok"
    /\ resp.status = 404
    /\ result = Err("Machinebox", <<Lit("HTTP "), StatusPiece(404)>>)

(***************************************************************************)
(* C20: Videobox::delete returns Ok(()) whenever the status is 200,        *)
(* whatever the body (empty, not JSON, or an envelope with success ==      *)
(* false), and a service error on every other status; the body is never    *)
(* decoded as an envelope.                                                 *)
(***************************************************************************)
C20_VideoDeleteIgnoresBody ==
    (op = "Videobox::delete" /\ resp.send = "ok" /\ resp.readOk)
    => /\ Answered200 => result = Ok(VUnit)
       /\ AnsweredNot200 => IsServiceError(result)

C20_Witness ==
    /\ Answered200
    /\ op = "Videobox::delete"
    /\ resp.body = ObjBody([success |-> JBool(FALSE), error |-> JStr("bad image")])
    /\ result = Ok(VUnit)

(***************************************************************************)
(* C21: calls that run concurrently on separate threads, against the same  *)
(* or different box clients, do not interfere: a box client keeps the base *)
(* url it was constructed with, every call has its own client object, and  *)
(* under every interleaving a call returns what it would return alone on   *)
(* the response given to it.                                               *)
(***************************************************************************)
C21_CallsDoNotInterfere ==
    /\ boxUrl = BaseUrls
    /\ \A t \in Threads :
        /\ threads[t].pc # "idle"
            => threads[t].url = boxUrl[threads[t].box] \o PathOf(threads[t].op)
        /\ threads[t].pc = "sent"
            => /\ conns[threads[t].client].busy
               /\ conns[threads[t].client].resp = threads[t].answer
               /\ \A u \in Threads \ {t} :
                    threads[u].pc = "sent" => threads[u].client # threads[t].client
        /\ threads[t].pc = "returned"
            => threads[t].result = Outcome(threads[t].op, threads[t].answer)

\* both threads called the same box client's method, were answered
\* differently, and each returned the result of its own response
C21_Witness ==
    /\ threads[1].pc = "returned"
    /\ threads[2].pc = "returned"
    /\ threads[1].op = "Facebox::teach_url"
    /\ threads[2].op = "Facebox::teach_url"
    /\ threads[1].result = Ok(VUnit)
    /\ threads[2].result = Err("Machinebox", <<Lit("bad image")>>)

C23_CauseAndDisplay ==
    (pc = "returned" /\ result.tag = "Err")
    => /\ result.kind \in {"Reqwest", "Serialization", "Io"} => cause(result) = "Some"
       /\ result.kind = "Machinebox"
            => /\ cause(result) = "None"
               /\ Display(result) = result.msg
               /\ resp.send = "ok"
               /\ resp.status # StatusOk
                    => Display(result) \in
                          {HttpStatusAndBody(resp.status, resp.body),
                           <<RawPiece(resp.body)>>,
                           <<Lit("HTTP "), StatusPiece(resp.status)>>}
               /\ resp.status = StatusOk => Display(result) = ExpectedMessage(resp.body)

C23_Witness ==
    /\ pc = "returned"
    /\ op = "Facebox::rename"
    /\ resp.status = 404
    /\ IsServiceError(result)
    /\ cause(result) = "None"
    /\ Display(result) = HttpStatusAndBody(404, TextBody("not found"))

(***************************************************************************)
(* C24: when a success envelope leaves out optional payload fields, each   *)
(* such field of the domain value takes its type's empty value (empty      *)
(* list, zero, empty string): for a Video decoded from a body with only    *)
(* success == true and id, every numeric field is 0 and every text field   *)
(* (download_complete_estimate, last_frame_base64, expires) is "".         *)
(***************************************************************************)
\* the JSON key a field of a domain value is read from
WireKey(k) ==
    CASE k = "download_total"             -> "downloadTotal"
      [] k = "download_complete"          -> "downloadComplete"
      [] k = "download_complete_estimate" -> "downloadCompleteEstimate"
      [] k = "frames_count"               -> "framesCount"
      [] k = "frames_complete"            -> "framesComplete"
      [] k = "last_frame_base64"          -> "lastFrameBase64"
      [] k = "milliseconds_complete"      -> "millisecondsComplete"
      [] OTHER                            -> k

\* the empty value of a type: None, "", 0 or the empty list
IsEmpty(v) ==
    \/ v.t = "null"
    \/ v.t = "string" /\ v.s = ""
    \/ v.t = "number" /\ v.n = 0
    \/ v.t = "array" /\ v.a = <<>>

\* the fields of the domain value whose key the body left out; the status
\* of a Video is an enum, not a text field
OmittedFields ==
    {k \in DOMAIN result.val.fields :
        WireKey(k) \notin DOMAIN resp.body.fields /\ k # "status"}

C24_OmittedFieldsAreEmpty ==
    (Answered200 /\ op \in EnvelopeOps /\ result.tag = "Ok")
    => \A k \in OmittedFields : IsEmpty(result.val.fields[k])

(***************************************************************************)
(* C25: on a status other than 200 the status check comes before JSON      *)
(* decoding: for the operations built on the transport helpers and for the *)
(* suggestionbox operations, a body that is empty or not valid JSON gives  *)
(* a service error, never a decode error.                                  *)
(***************************************************************************)
\* the suggestionbox operations that answer with JSON or with nothing
SuggestionboxJsonOps ==
    SuggestionOps \cup {"Suggestionbox::delete_model", "Suggestionbox::get_model_stats"}

C25_StatusBeforeDecoding ==
    (/\ AnsweredNot200
     /\ op \in HelperOps \cup SuggestionboxJsonOps
     /\ resp.body.kind = "text")
    => IsServiceError(result)

(***************************************************************************)
(* C26: Status::from_str maps exactly the six lowercase strings pending,   *)
(* downloading, processing, complete, failed, unknown to their variants    *)
(* and returns Err for every other string; a success VideoResponse without *)
(* a status decodes to a Video with status Unknown, one with status        *)
(* "processing" to Processing.                                             *)
(***************************************************************************)
\* the variant each known status string names
StatusVariant ==
    [pending |-> "Pending", downloading |-> "Downloading", processing |-> "Processing",
     complete |-> "Complete", failed |-> "Failed", unknown |-> "Unknown"]

\* strings a box may send as a status: the known ones and some others
StatusStrings ==
    DOMAIN StatusVariant
    \cup {"", "queued", "Pending", "PROCESSING", "complete ", "done", "error"}

C26_StatusFromStr ==
    /\ \A s \in StatusStrings :
        IF s \in DOMAIN StatusVariant
        THEN /\ Status_from_str(s).tag = "Ok"
             /\ Status_from_str(s).val.fields["variant"] = JStr(StatusVariant[s])
        ELSE Status_from_str(s).tag = "Err"
    /\ (/\ Answered200
        /\ op \in VideoOps
        /\ FieldIs(resp.body, "success", JBool(TRUE))
        /\ result.tag = "Ok")
       => result.val.fields["status"] =
            IF HasField(resp.body, "status") /\ resp.body.fields["status"].t = "string"
            THEN JStr(StatusVariant[resp.body.fields["status"].s])
            ELSE JStr("Unknown")

C26_Witness ==
    /\ Answered200
    /\ op = "Videobox::status"
    /\ FieldIs(resp.body, "success", JBool(TRUE))
    /\ FieldIs(resp.body, "status", JStr("processing"))
    /\ result.tag = "Ok"
    /\ result.val.fields["status"] = JStr("Processing")

(***************************************************************************)
(* The builders.  A caller makes a builder with new(), calls setters on it *)
(* (each takes the builder by value and hands it back), and finish() moves *)
(* its fields into the value built.  A CheckOptions then goes to           *)
(* Videobox::check_url, which makes the form it posts.  `calls' keeps the  *)
(* setter calls made, in order, for the value in `builder' or `built'.     *)
(***************************************************************************)
\* every setter takes the builder by value and returns it changed
Setter(type, call, after) ==
    /\ builder.type = type
    /\ Len(calls) < MaxCalls
    /\ builder' = after
    /\ calls' = Append(calls, call)
    /\ UNCHANGED <<pc, op, req, resp, result, sinkBefore, sink, file, boxUrl, threads,
                   conns, stream, built>>

\* new() starts from nothing; the value built before, if any, is dropped
New(b) ==
    /\ builder = NoValue
    /\ builder' = b
    /\ calls' = <<>>
    /\ built' = NoValue
    /\ UNCHANGED <<pc, op, req, resp, result, sinkBefore, sink, file, boxUrl, threads,
                   conns, stream>>

\* finish(self) consumes the builder
Finish(type, v) ==
    /\ builder.type = type
    /\ builder' = NoValue
    /\ built' = v
    /\ UNCHANGED <<pc, op, req, resp, result, sinkBefore, sink, file, boxUrl, threads,
                   conns, stream, calls>>

(********************* ModelBuilder (suggestionbox/types.rs) ***************)
\* Choice { id, features }
Choice(id, features) == [id |-> id, features |-> features]

ModelBuilder_new ==
    New(Value("ModelBuilder", "default", None, <<>>, None, NoFields, <<>>))

ModelBuilder_named ==
    \E name \in {"articles", "songs"} :
        Setter("ModelBuilder", [method |-> "named", key |-> "", arg |-> name],
               [builder EXCEPT !.name = name])

ModelBuilder_id ==
    \E id \in {"model1", "model2"} :
        Setter("ModelBuilder", [method |-> "id", key |-> "", arg |-> id],
               [builder EXCEPT !.id = Some(id)])

\* choice, were it to keep only the choice given last
ModelBuilder_choice_replacing ==
    \E id \in {"article1", "article2"}, features \in {<<"title">>, <<"title", "body">>} :
        Setter("ModelBuilder", [method |-> "choice", key |-> "", arg |-> Choice(id, features)],
               [builder EXCEPT !.choices = <<Choice(id, features)>>])

ModelBuilder_choice ==
    \E id \in {"article1", "article2"}, features \in {<<"title">>, <<"title", "body">>} :
        Setter("ModelBuilder", [method |-> "choice", key |-> "", arg |-> Choice(id, features)],
               [builder EXCEPT !.choices = Append(@, Choice(id, features))])

ModelBuilder_options ==
    \E options \in {[epsilon |-> "0.1", ngrams |-> "1"], [epsilon |-> "0.3", ngrams |-> "2"]} :
        Setter("ModelBuilder", [method |-> "options", key |-> "", arg |-> options],
               [builder EXCEPT !.options = Some(options)])

ModelBuilder_finish ==
    Finish("ModelBuilder",
           Value("Model", builder.name, builder.id, builder.choices, builder.options,
                 NoFields, <<>>))

(******************* CheckOptionsBuilder (videobox/types.rs) ***************)
\* HashMap::insert, were it to keep the value a key already has
insert_keeps_old(kvs, k, v) == IF k \in DOMAIN kvs THEN kvs ELSE Merge(kvs, F1(k, v))

\* HashMap::insert: the key's old value, if any, is replaced
insert(kvs, k, v) == Merge(kvs, F1(k, v))

\* the setters: the key each inserts and the values a caller gives, after
\* to_string / to_owned
OptionSetters ==
    {[method |-> "result_duration",   key |-> "resultDuration",   values |-> {"1h0m0s"}],
     [method |-> "skip_frames",       key |-> "skipframes",       values |-> {"1", "2"}],
     [method |-> "skip_seconds",      key |-> "skipseconds",      values |-> {"3"}],
     [method |-> "frame_width",       key |-> "frameWidth",       values |-> {"100", "640"}],
     [method |-> "frame_height",      key |-> "frameHeight",      values |-> {"120"}],
     [method |-> "frame_concurrency", key |-> "frameConcurrency", values |-> {"2"}],
     [method |-> "facebox_threshold", key |-> "faceboxThreshold", values |-> {"0.75"}],
     [method |-> "tagbox_include",    key |-> "tagboxInclude",    values |-> {"all"}],
     [method |-> "tagbox_threshold",  key |-> "tagboxThreshold",  values |-> {"0.7"}],
     [method |-> "nudebox_threshold", key |-> "nudeboxThreshold", values |-> {"0.2"}]}

CheckOptionsBuilder_new ==
    New(Value("CheckOptionsBuilder", "", None, <<>>, None, NoFields, <<>>))

\* each setter does self.kvs.insert(key, value) and returns the builder
CheckOptionsBuilder_set ==
    \E o \in OptionSetters : \E v \in o.values :
        Setter("CheckOptionsBuilder", [method |-> o.method, key |-> o.key, arg |-> v],
               [builder EXCEPT !.kvs = insert(@, o.key, v)])

CheckOptionsBuilder_finish ==
    Finish("CheckOptionsBuilder",
           Value("CheckOptions", "", None, <<>>, None, builder.kvs, <<>>))

\* the orders in which a HashMap's iterator may yield its keys: any order,
\* each key once
CheckOptions_into_iter(kvs) ==
    {order \in [1..Cardinality(DOMAIN kvs) -> DOMAIN kvs] :
        \A i, j \in DOMAIN order : order[i] = order[j] => i = j}

\* the form check_url builds: the url first, then the options as iterated
Videobox_check_url_params ==
    /\ builder = NoValue
    /\ built.type = "CheckOptions"
    /\ \E order \in CheckOptions_into_iter(built.kvs) :
        built' = Value("params", "", None, <<>>, None, NoFields,
                       <<[k |-> "url", v |-> "https://test.machinebox.io/image1.png"]>>
                       \o [i \in DOMAIN order |-> [k |-> order[i], v |-> built.kvs[order[i]]]])
    /\ UNCHANGED <<pc, op, req, resp, result, sinkBefore, sink, file, boxUrl, threads,
                   conns, stream, builder, calls>>

NextBuilders ==
    \/ ModelBuilder_new
    \/ ModelBuilder_named
    \/ ModelBuilder_id
    \/ ModelBuilder_choice
    \/ ModelBuilder_options
    \/ ModelBuilder_finish
    \/ CheckOptionsBuilder_new
    \/ CheckOptionsBuilder_set
    \/ CheckOptionsBuilder_finish
    \/ Videobox_check_url_params

SpecBuilders == Init /\ [][NextBuilders]_vars

(***************************************************************************)
(* What the calls made on a builder say the built value must hold.         *)
(***************************************************************************)
\* the positions in `calls' of the calls of one method
CallsOf(method) == {i \in DOMAIN calls : calls[i].method = method}
Last(S) == CHOOSE i \in S : \A j \in S : j <= i
\* the argument of the last call of a method
LastArg(method) == calls[Last(CallsOf(method))].arg
IsChoiceCall(c) == c.method = "choice"
\* the arguments of the choice calls, in call order
ChoiceArgs ==
    LET cs == SelectSeq(calls, IsChoiceCall) IN [i \in DOMAIN cs |-> cs[i].arg]
\* the option keys set by the calls, and the last value given for a key
KeysSet == {calls[i].key : i \in DOMAIN calls}
LastValue(k) == calls[Last({i \in DOMAIN calls : calls[i].key = k})].arg

\* C27: finish() returns a Model named "default" unless named() was called
\* (then the last name given), with id None unless id() was called, options
\* None unless options() was called, and with exactly the choice() calls as
\* its choices, one Choice per call, in call order.
C27_FinishHoldsWhatWasSet ==
    built.type = "Model" =>
        /\ built.name = IF CallsOf("named") = {} THEN "default" ELSE LastArg("named")
        /\ built.id = IF CallsOf("id") = {} THEN None ELSE Some(LastArg("id"))
        /\ built.options =
            IF CallsOf("options") = {} THEN None ELSE Some(LastArg("options"))
        /\ built.choices = ChoiceArgs

\* C27 witness: a model finished after named() twice, with two choices in
\* between, and neither id() nor options() called
C27_Witness ==
    /\ built.type = "Model"
    /\ Len(calls) = MaxCalls
    /\ calls[1].method = "choice"
    /\ calls[2].method = "choice"
    /\ calls[1].arg # calls[2].arg
    /\ calls[3].method = "named"
    /\ built.name = "songs"
    /\ built.id = None
    /\ Len(built.choices) = 2

\* C28: a CheckOptionsBuilder, and the CheckOptions it finishes as, holds
\* exactly one pair for each distinct option set, with the value of the last
\* call for that option; the form check_url sends has the "url" pair first,
\* only once, followed by each option pair exactly once.
C28_OneValuePerOption ==
    /\ (builder.type = "CheckOptionsBuilder" \/ built.type = "CheckOptions") =>
        LET kvs == IF built.type = "CheckOptions" THEN built.kvs ELSE builder.kvs
        IN  /\ DOMAIN kvs = KeysSet
            /\ \A k \in KeysSet : kvs[k] = LastValue(k)
    /\ built.type = "params" =>
        LET params == built.params
        IN  /\ params[1].k = "url"
            /\ \A i \in 2..Len(params) : params[i].k # "url"
            /\ Len(params) = 1 + Cardinality(KeysSet)
            /\ \A k \in KeysSet :
                Cardinality({i \in 2..Len(params) : params[i] = [k |-> k, v |-> LastValue(k)]}) = 1

\* C28 witness: a form sent after skip_frames was set twice, to different
\* values, and frame_width once
C28_Witness ==
    /\ built.type = "params"
    /\ Len(calls) = 3
    /\ calls[1] = [method |-> "skip_frames", key |-> "skipframes", arg |-> "1"]
    /\ calls[2] = [method |-> "frame_width", key |-> "frameWidth", arg |-> "640"]
    /\ calls[3] = [method |-> "skip_frames", key |-> "skipframes", arg |-> "2"]
    /\ built.params[2] = [k |-> "frameWidth", v |-> "640"]
    /\ built.params[3] = [k |-> "skipframes", v |-> "2"]

\* what the transport helper that sent request rq returned for response r
HelperOf(rq, r) ==
    CASE rq.method = "POST" /\ rq.enc = "form" ->
            post_form_vars(rq.url, rq.texts, r).res
      [] rq.method = "DELETE" -> delete_with_response(rq.url, r).res
      [] rq.method = "PATCH" -> patch_json(rq.url, r).res
      [] rq.method = "POST" /\ rq.enc = "multipart" ->
            post_multipart(rq.url, [files |-> rq.files, texts |-> rq.texts], r).res
      [] rq.method = "GET" -> get_json(rq.url, r).res
      [] rq.method = "POST" /\ rq.enc = "json" -> post_json(rq.url, r).res

\* C29: every transport helper reads the body before it looks at the status:
\* when reading the body fails the helper, and the operation built on it,
\* returns a transport (Reqwest) error whatever the status, and on status
\* 200 the helper returns the body text as it was received, JSON or not.
C29_BodyReadBeforeStatus ==
    (/\ pc = "returned"
     /\ op \in HelperOps
     /\ Len(req) = 1
     /\ resp.send = "ok")
    => LET raw == HelperOf(req[1], resp)
       IN  /\ ~resp.readOk
              => /\ IsTransportError(raw)
                 /\ IsTransportError(result)
           /\ (resp.readOk /\ resp.status = StatusOk)
              => raw = Ok(VRaw(resp.body))

\* C29 witness: Videobox::status answered 404 with a body that cannot be
\* read returns a transport error
C29_Witness ==
    /\ pc = "returned"
    /\ op = "Videobox::status"
    /\ resp.send = "ok"
    /\ ~resp.readOk
    /\ resp.status = 404
    /\ IsTransportError(result)
====
